---------------------------- MODULE Spec2Model ----------------------------
(***************************************************************************)
(* Turn-based combat and progression core of the console RPG:              *)
(*   src/player.py         Player, MainStats, SecondaryStats               *)
(*   src/enemy.py          Enemy, EnemyStats                               *)
(*   src/combat_system.py  CombatSystem                                    *)
(*                                                                         *)
(* Arithmetic.  The player's derived stats are Python floats with one      *)
(* decimal (2 + vitality * 1.20, 5 + strength * 1.30 + agility * 0.10),     *)
(* so Player.take_damage returns a float and Player.current_hp becomes a   *)
(* float.  The model keeps these quantities as integers counted in TENTHS: *)
(* the player's current_hp, attack, defense, m_attack, m_defense,          *)
(* crit_rate and dodge.  Everything else (max_hp, max_mp, all enemy        *)
(* fields, damage handed over by an attacker) is a plain integer, as in    *)
(* the code.  int(x) of a non-negative Python value is \div.               *)
(***************************************************************************)
EXTENDS Integers, Sequences, FiniteSets, TLC

VARIABLES
    player,              \* CombatSystem.player / the Player object
    enemies,             \* CombatSystem.enemies: sequence of Enemy objects
    combat_active,       \* CombatSystem.combat_active
    turn_order,          \* CombatSystem.turn_order: 0 = the player, i = enemies[i]
    current_turn_index,  \* CombatSystem.current_turn_index (0-based, as in the code)
    total_exp_gained,    \* CombatSystem.total_exp_gained
    total_loot,          \* CombatSystem.total_loot: item -> quantity
    pc,                  \* position inside execute_combat_encounter
    result,              \* value returned by execute_combat_encounter
    last                 \* the most recent call: operation, arguments, return value

vars == <<player, enemies, combat_active, turn_order, current_turn_index,
          total_exp_gained, total_loot, pc, result, last>>

Max(a, b) == IF a >= b THEN a ELSE b
Min(a, b) == IF a <= b THEN a ELSE b

\* x counted in tenths
Tenths(x) == 10 * x

-----------------------------------------------------------------------------
(* Bounds of the model *)

\* largest amount handed to take_damage / heal / restore_mp as an input
MaxAmount == 12
\* gain_experience stops being offered at this level
MaxLevel == 3

-----------------------------------------------------------------------------
(* src/player.py: constants *)

DEFAULT_MAIN_STAT_VALUE == 2
DEFAULT_LUCK_STAT_VALUE == 1
INITIAL_FREE_POINTS == 3
INITIAL_LEVEL == 1
INITIAL_EXPERIENCE == 0
INITIAL_EXPERIENCE_TO_NEXT == 100
BASE_HP == 31
BASE_MP == 20
\* the next four are floats in the code: tenths
BASE_ATTACK == 50
BASE_DEFENSE == 20
BASE_MAGIC_ATTACK == 50
BASE_MAGIC_DEFENSE == 20
VITALITY_HP_MULTIPLIER == 9
INTELLIGENCE_MP_MULTIPLIER == 5
\* multipliers of float stats: tenths per point
STRENGTH_ATTACK_MULTIPLIER == 13
AGILITY_ATTACK_MULTIPLIER == 1
VITALITY_DEFENSE_MULTIPLIER == 12
INTELLIGENCE_MAGIC_ATTACK_MULTIPLIER == 10
WISDOM_MAGIC_DEFENSE_MULTIPLIER == 10
WISDOM_RESTORATIVE_MAGIC_MULTIPLIER == 1
DEXTERITY_CRIT_RATE_MULTIPLIER == 5
AGILITY_DODGE_MULTIPLIER == 5
DEXTERITY_DODGE_MULTIPLIER == 1
MINIMUM_DAMAGE == 1
\* percentages, in tenths of a percent
MAX_DODGE_CHANCE == 950
MAX_CRIT_CHANCE == 950
STAT_POINTS_PER_LEVEL == 1
DEFAULT_POISON_DAMAGE == 5
DEFAULT_REGEN_HEAL == 5
DEFAULT_BURN_DAMAGE == 3

AUTO_ASSIGNED_STATS_ON_LEVEL_UP ==
    {"strength", "vitality", "wisdom", "intelligence", "agility", "dexterity", "speed"}

StatNames ==
    {"strength", "vitality", "wisdom", "intelligence", "agility", "dexterity",
     "luck", "speed"}

\* MainStats(): the dataclass defaults
MainStats ==
    [s \in StatNames |->
        IF s = "luck" THEN DEFAULT_LUCK_STAT_VALUE ELSE DEFAULT_MAIN_STAT_VALUE]

\* the threshold left as it is
NextThreshold_Same(x) == x

\* int(experience_to_next * EXPERIENCE_TO_NEXT_LEVEL_MULTIPLIER), multiplier 1.2
NextThreshold(x) == (6 * x) \div 5

-----------------------------------------------------------------------------
(* src/player.py: derived stats *)

RECURSIVE SumField(_, _)
SumField(items, f) ==
    IF items = <<>> THEN 0 ELSE items[1][f] + SumField(Tail(items), f)

\* Player._apply_equipment_bonuses: the occupied slots' ItemStats, added onto the
\* freshly reset stats.  ItemStats has attack, defense, m_attack, m_defense; it has
\* no attribute hp, mp, crit_rate or dodge, so those hasattr branches never add.
ApplyEquipmentBonuses(sec, equipment) ==
    [sec EXCEPT !.attack    = @ + Tenths(SumField(equipment, "attack")),
                !.defense   = @ + Tenths(SumField(equipment, "defense")),
                !.m_attack  = @ + Tenths(SumField(equipment, "m_attack")),
                !.m_defense = @ + Tenths(SumField(equipment, "m_defense"))]

\* SecondaryStats(): the dataclass defaults, before the first calculation
SecondaryStats ==
    [max_hp |-> 0, max_mp |-> 0, attack |-> 0, defense |-> 0, m_attack |-> 0,
     m_defense |-> 0, restorative_magic |-> 0, crit_rate |-> 0, dodge |-> 0,
     luck |-> 0, discovery |-> 0]

\* calculate_secondary_stats without its reset block: the terms pile up on
\* whatever the stats held before
ResetSecondaryStats_Keep(sec) == sec

\* the reset block of calculate_secondary_stats: every accumulated stat back to
\* its base; luck and discovery are left, they are assigned below
ResetSecondaryStats(sec) ==
    [sec EXCEPT !.max_hp    = BASE_HP,
                !.max_mp    = BASE_MP,
                !.attack    = BASE_ATTACK,
                !.defense   = BASE_DEFENSE,
                !.m_attack  = BASE_MAGIC_ATTACK,
                !.m_defense = BASE_MAGIC_DEFENSE,
                !.restorative_magic = 0,
                !.crit_rate = 0,
                !.dodge     = 0]

\* Player.calculate_secondary_stats on the stats object as it stands: reset, add
\* the main-stat terms onto the fields in place, then the equipment
CalculateSecondaryStatsFrom(sec, ms, equipment) ==
    ApplyEquipmentBonuses(
        [ResetSecondaryStats(sec) EXCEPT
            !.max_hp    = @ + ms.vitality * VITALITY_HP_MULTIPLIER,
            !.max_mp    = @ + ms.intelligence * INTELLIGENCE_MP_MULTIPLIER,
            !.attack    = @ + (ms.strength * STRENGTH_ATTACK_MULTIPLIER
                               + ms.agility * AGILITY_ATTACK_MULTIPLIER),
            !.defense   = @ + ms.vitality * VITALITY_DEFENSE_MULTIPLIER,
            !.m_attack  = @ + ms.intelligence * INTELLIGENCE_MAGIC_ATTACK_MULTIPLIER,
            !.m_defense = @ + ms.wisdom * WISDOM_MAGIC_DEFENSE_MULTIPLIER,
            !.restorative_magic = @ + ms.wisdom * WISDOM_RESTORATIVE_MAGIC_MULTIPLIER,
            !.crit_rate = @ + ms.dexterity * DEXTERITY_CRIT_RATE_MULTIPLIER,
            !.dodge     = @ + (ms.agility * AGILITY_DODGE_MULTIPLIER
                               + ms.dexterity * DEXTERITY_DODGE_MULTIPLIER),
            !.luck      = ms.luck,
            !.discovery = ms.luck * 2],
        equipment)

\* the first calculation, of Player.__init__, on a fresh SecondaryStats()
CalculateSecondaryStats(ms, equipment) ==
    CalculateSecondaryStatsFrom(SecondaryStats, ms, equipment)

\* Player.__init__, then the state an encounter or a menu finds the player in:
\* main stats ms, equipment, current_hp (tenths) and current_mp as given
NewPlayer(ms, equipment, hp, mp, effects) ==
    [main_stats         |-> ms,
     secondary_stats    |-> CalculateSecondaryStats(ms, equipment),
     free_points        |-> INITIAL_FREE_POINTS,
     level              |-> INITIAL_LEVEL,
     experience         |-> INITIAL_EXPERIENCE,
     experience_to_next |-> INITIAL_EXPERIENCE_TO_NEXT,
     equipment          |-> equipment,
     current_hp         |-> hp,
     current_mp         |-> mp,
     status_effects     |-> effects,
     is_defending       |-> FALSE]

-----------------------------------------------------------------------------
(* src/player.py: pools.  Each operation yields [self, ret]. *)

\* take_damage without the MINIMUM_DAMAGE floor
PlayerTakeDamage_NoFloor(p, damage) ==
    LET actual == Tenths(Max(0, damage)) - p.secondary_stats.defense
    IN  [self |-> [p EXCEPT !.current_hp = Max(0, @ - actual)], ret |-> actual]

\* Player.take_damage(damage): actual damage and current_hp in tenths
PlayerTakeDamage(p, damage) ==
    LET dmg    == Max(0, damage)
        actual == Max(Tenths(MINIMUM_DAMAGE), Tenths(dmg) - p.secondary_stats.defense)
    IN  [self |-> [p EXCEPT !.current_hp = Max(0, @ - actual)], ret |-> actual]

\* Player.take_magic_damage(damage)
PlayerTakeMagicDamage(p, damage) ==
    LET dmg    == Max(0, damage)
        actual == Max(Tenths(MINIMUM_DAMAGE), Tenths(dmg) - p.secondary_stats.m_defense)
    IN  [self |-> [p EXCEPT !.current_hp = Max(0, @ - actual)], ret |-> actual]

\* Player.heal(amount): returns the change of current_hp (tenths)
PlayerHeal(p, amount) ==
    LET amt == Max(0, amount)
        new == Min(Tenths(p.secondary_stats.max_hp), p.current_hp + Tenths(amt))
    IN  [self |-> [p EXCEPT !.current_hp = new], ret |-> new - p.current_hp]

\* Player.restore_mp(amount)
PlayerRestoreMp(p, amount) ==
    LET new == Min(p.secondary_stats.max_mp, p.current_mp + amount)
    IN  [self |-> [p EXCEPT !.current_mp = new], ret |-> new - p.current_mp]

\* use_mp deducting without the availability test
PlayerUseMp_NoCheck(p, amount) ==
    [self |-> [p EXCEPT !.current_mp = @ - amount], ret |-> TRUE]

\* Player.use_mp(amount)
PlayerUseMp(p, amount) ==
    IF p.current_mp >= amount
    THEN [self |-> [p EXCEPT !.current_mp = @ - amount], ret |-> TRUE]
    ELSE [self |-> p, ret |-> FALSE]

\* is_alive that counts 0 HP as alive
PlayerIsAlive_AtZero(p) == p.current_hp >= 0

\* Player.is_alive
PlayerIsAlive(p) == p.current_hp > 0


-----------------------------------------------------------------------------
(* src/player.py: status effects.  A StatusEffectData is modelled by its type,  *)
(* duration and potency; potency is <<>> for None and <<n>> for the float n / 10 *)
(* (tenths, not negative).                                                       *)

\* int(effect_data.potency if effect_data.potency is not None else default)
Potency(effect, default) ==
    IF effect.potency = <<>> THEN default ELSE effect.potency[1] \div 10

\* the handlers without the floor of current_hp at 0
PlayerApplyEffect_NoFloor(p, effect) ==
    CASE effect.type = "poison" ->
            [p EXCEPT !.current_hp = @ - Tenths(Potency(effect, DEFAULT_POISON_DAMAGE))]
      [] effect.type = "burn" ->
            [p EXCEPT !.current_hp = @ - Tenths(Potency(effect, DEFAULT_BURN_DAMAGE))]
      [] effect.type = "regen_hp" ->
            PlayerHeal(p, Potency(effect, DEFAULT_REGEN_HEAL)).self
      [] OTHER -> p

\* Player._status_effect_handlers[effect.type](effect); no handler: only a warning
PlayerApplyEffect(p, effect) ==
    CASE effect.type = "poison" ->
            [p EXCEPT !.current_hp =
                Max(0, @ - Tenths(Potency(effect, DEFAULT_POISON_DAMAGE)))]
      [] effect.type = "burn" ->
            [p EXCEPT !.current_hp =
                Max(0, @ - Tenths(Potency(effect, DEFAULT_BURN_DAMAGE)))]
      [] effect.type = "regen_hp" ->
            PlayerHeal(p, Potency(effect, DEFAULT_REGEN_HEAL)).self
      [] OTHER -> p   \* stun and stat_boost handlers change nothing

\* the loop of Player.process_status_effects over status_effects[i..]: the handler
\* first, then duration -= 1
RECURSIVE PlayerTickFrom(_, _)
PlayerTickFrom(p, i) ==
    IF i > Len(p.status_effects) THEN p
    ELSE LET q == PlayerApplyEffect(p, p.status_effects[i])
         IN  PlayerTickFrom([q EXCEPT !.status_effects[i].duration = @ - 1], i + 1)

\* a removal that lets an effect stay until its duration is below 0
RECURSIVE RemoveExpired_BelowZero(_)
RemoveExpired_BelowZero(effects) ==
    IF effects = <<>> THEN <<>>
    ELSE IF Head(effects).duration < 0 THEN RemoveExpired_BelowZero(Tail(effects))
         ELSE <<Head(effects)>> \o RemoveExpired_BelowZero(Tail(effects))

\* list.pop of every index whose effect has duration <= 0
RECURSIVE RemoveExpired(_)
RemoveExpired(effects) ==
    IF effects = <<>> THEN <<>>
    ELSE IF Head(effects).duration <= 0 THEN RemoveExpired(Tail(effects))
         ELSE <<Head(effects)>> \o RemoveExpired(Tail(effects))

\* Player.process_status_effects
PlayerProcessStatusEffects(p) ==
    LET q == PlayerTickFrom(p, 1)
    IN  [q EXCEPT !.status_effects = RemoveExpired(@)]

-----------------------------------------------------------------------------
(* src/player.py: progression *)

\* level_up restoring both pools to their new maximum
LevelUp_FullRestore(p) ==
    LET ms  == [s \in StatNames |->
                   IF s \in AUTO_ASSIGNED_STATS_ON_LEVEL_UP
                   THEN p.main_stats[s] + 1 ELSE p.main_stats[s]]
        sec == CalculateSecondaryStatsFrom(p.secondary_stats, ms, p.equipment)
    IN  [p EXCEPT !.experience         = @ - p.experience_to_next,
                  !.level              = @ + 1,
                  !.experience_to_next = NextThreshold(@),
                  !.main_stats         = ms,
                  !.free_points        = @ + STAT_POINTS_PER_LEVEL,
                  !.secondary_stats    = sec,
                  !.current_hp = Tenths(sec.max_hp),
                  !.current_mp = sec.max_mp]

\* Player.level_up
LevelUp(p) ==
    LET ms  == [s \in StatNames |->
                   IF s \in AUTO_ASSIGNED_STATS_ON_LEVEL_UP
                   THEN p.main_stats[s] + 1 ELSE p.main_stats[s]]
        sec == CalculateSecondaryStatsFrom(p.secondary_stats, ms, p.equipment)
        hp_gain == sec.max_hp - p.secondary_stats.max_hp
        mp_gain == sec.max_mp - p.secondary_stats.max_mp
    IN  [p EXCEPT !.experience         = @ - p.experience_to_next,
                  !.level              = @ + 1,
                  !.experience_to_next = NextThreshold(@),
                  !.main_stats         = ms,
                  !.free_points        = @ + STAT_POINTS_PER_LEVEL,
                  !.secondary_stats    = sec,
                  !.current_hp = Min(Tenths(sec.max_hp), @ + Tenths(hp_gain)),
                  !.current_mp = Min(sec.max_mp, @ + mp_gain)]

\* the while loop of Player.gain_experience
RECURSIVE LevelUpLoop(_)
LevelUpLoop(p) ==
    IF p.experience >= p.experience_to_next THEN LevelUpLoop(LevelUp(p)) ELSE p

\* Player.gain_experience(exp)
GainExperience(p, exp) == LevelUpLoop([p EXCEPT !.experience = @ + exp])

\* Player.allocate_stat_point(stat_name, points): [self, ret]
AllocateStatPoint(p, stat_name, points) ==
    LET current_value == p.main_stats[stat_name]
        base_value == IF stat_name = "luck" THEN DEFAULT_LUCK_STAT_VALUE
                      ELSE DEFAULT_MAIN_STAT_VALUE
        allocated_points == current_value - base_value
        ms == [p.main_stats EXCEPT ![stat_name] = current_value + points]
    IN  IF points > 0 /\ p.free_points < points
        THEN [self |-> p, ret |-> FALSE]
        ELSE IF stat_name \notin StatNames
        THEN [self |-> p, ret |-> FALSE]
        ELSE IF points < 0 /\ -points > allocated_points
        THEN [self |-> p, ret |-> FALSE]
        ELSE [self |-> [p EXCEPT !.main_stats      = ms,
                                 !.free_points     = @ - points,
                                 !.secondary_stats =
                                     CalculateSecondaryStatsFrom(@, ms, p.equipment)],
              ret |-> TRUE]

\* Player.reset_stats
ResetStats(p) ==
    [p EXCEPT !.main_stats      = MainStats,
              !.free_points     = INITIAL_FREE_POINTS,
              !.secondary_stats = CalculateSecondaryStatsFrom(@, MainStats, p.equipment)]

-----------------------------------------------------------------------------
(* src/enemy.py: Enemy.  All fields are integers. *)

RECURSIVE Dedup(_)
\* list(dict.fromkeys(loot)): first occurrences, in order
Dedup(s) ==
    IF s = <<>> THEN <<>>
    ELSE LET front == Dedup(SubSeq(s, 1, Len(s) - 1))
             x     == s[Len(s)]
         IN  IF \E i \in 1..Len(front) : front[i] = x THEN front
             ELSE Append(front, x)

\* Enemy.__init__(name, enemy_type, rarity, stats, abilities, loot)
NewEnemy(t) ==
    [name           |-> t.name,
     type           |-> t.type,
     stats          |-> t.stats,
     max_hp         |-> t.stats.max_hp,
     current_hp     |-> t.stats.max_hp,
     max_mp         |-> t.stats.max_mp,
     current_mp     |-> t.stats.max_mp,
     abilities      |-> t.abilities,
     loot_table     |-> Dedup(t.loot),
     status_effects |-> <<>>,
     is_defending   |-> FALSE]

\* the defense Enemy.take_damage / take_magic_damage subtracts:
\* int(defense * 1.5) while defending
EffectiveDefense(defense, is_defending) ==
    IF is_defending THEN (3 * defense) \div 2 ELSE defense

\* Enemy.take_damage(damage): [self, ret]
EnemyTakeDamage(e, damage) ==
    LET actual == Max(1, damage - EffectiveDefense(e.stats.defense, e.is_defending))
    IN  [self |-> [e EXCEPT !.current_hp = Max(0, @ - actual)], ret |-> actual]

\* Enemy.take_magic_damage(damage)
EnemyTakeMagicDamage(e, damage) ==
    LET actual == Max(1, damage - EffectiveDefense(e.stats.m_defense, e.is_defending))
    IN  [self |-> [e EXCEPT !.current_hp = Max(0, @ - actual)], ret |-> actual]

\* heal without the max_hp cap
EnemyHeal_NoCap(e, amount) ==
    [self |-> [e EXCEPT !.current_hp = @ + amount], ret |-> amount]

\* Enemy.heal(amount)
EnemyHeal(e, amount) ==
    LET new == Min(e.max_hp, e.current_hp + amount)
    IN  [self |-> [e EXCEPT !.current_hp = new], ret |-> new - e.current_hp]

\* Enemy.use_mp(amount)
EnemyUseMp(e, amount) ==
    IF e.current_mp >= amount
    THEN [self |-> [e EXCEPT !.current_mp = @ - amount], ret |-> TRUE]
    ELSE [self |-> e, ret |-> FALSE]

\* Enemy.is_alive
EnemyIsAlive(e) == e.current_hp > 0

\* effect.get('damage', d) / effect.get('heal', d): amount is <<>> when the key is
\* absent
EffectAmount(effect, default) ==
    IF effect.amount = <<>> THEN default ELSE effect.amount[1]

\* Enemy.add_status_effect
EnemyAddStatusEffect(e, effect) == [e EXCEPT !.status_effects = Append(@, effect)]

\* one iteration of the loop of Enemy.process_status_effects, without the
\* duration bookkeeping
EnemyApplyEffect(e, effect) ==
    CASE effect.type = "poison" ->
            [e EXCEPT !.current_hp = Max(0, @ - EffectAmount(effect, 5))]
      [] effect.type = "regen" -> EnemyHeal(e, EffectAmount(effect, 5)).self
      [] effect.type = "burn" ->
            [e EXCEPT !.current_hp = Max(0, @ - EffectAmount(effect, 3))]
      [] OTHER -> e

RECURSIVE EnemyTickFrom(_, _)
\* the loop over status_effects[i..]: duration -= 1, then the effect
EnemyTickFrom(e, i) ==
    IF i > Len(e.status_effects) THEN e
    ELSE LET d == [e EXCEPT !.status_effects[i].duration = @ - 1]
         IN  EnemyTickFrom(EnemyApplyEffect(d, d.status_effects[i]), i + 1)

\* Enemy.process_status_effects
EnemyProcessStatusEffects(e) ==
    LET d == EnemyTickFrom(e, 1)
    IN  [d EXCEPT !.status_effects = RemoveExpired(@)]


-----------------------------------------------------------------------------
(* src/player.py, src/enemy.py: rolls.  A roll of random.random() * 100 < chance  *)
(* can succeed iff chance > 0 and can fail iff chance < 100.                     *)

\* Player.can_dodge can return True: min(MAX_DODGE_CHANCE, dodge) > 0
PlayerMayDodge(p) == Min(MAX_DODGE_CHANCE, p.secondary_stats.dodge) > 0

\* Player.can_crit can return True
PlayerMayCrit(p) == Min(MAX_CRIT_CHANCE, p.secondary_stats.crit_rate) > 0

\* Enemy.can_dodge can return True: min(95, agility * 0.5) > 0
EnemyMayDodge(e) == e.stats.agility > 0

\* Enemy.can_crit can return True: min(95, luck * 0.3) > 0
EnemyMayCrit(e) == e.stats.luck > 0

\* the values of damage a get_*_damage call can return for an integer base, a
\* variance and a possible critical hit: randint(max(1, base - variance),
\* base + variance), then int(damage * 1.5) on a crit, then max(1, damage)
DamageRolls(base, variance, may_crit) ==
    LET rolls == Max(1, base - variance)..(base + variance)
    IN  {Max(1, d) : d \in rolls}
          \cup (IF may_crit THEN {Max(1, (3 * d) \div 2) : d \in rolls} ELSE {})

\* Enemy.get_attack_damage / get_magic_damage on base = stats.attack / m_attack;
\* {} when randint raises ValueError (empty range: base < 1)
EnemyDamageRolls(e, base) == DamageRolls(base, (15 * base) \div 100, EnemyMayCrit(e))

\* Player.get_attack_damage / get_magic_damage on base = secondary_stats.attack /
\* m_attack, a float (tenths here).  random.randint raises ValueError when a float
\* bound is not a whole number, so the call can only return when base is whole
\* (variance = int(base * 0.1) is an integer); {} when it cannot return.
PlayerDamageRolls(p, base) ==
    IF base % 10 # 0 THEN {}
    ELSE DamageRolls(base \div 10, base \div 100, PlayerMayCrit(p))

\* random.randint on float bounds can raise: always when a bound is not whole
\* (ValueError), and on interpreters whose randrange accepts only integers
\* (TypeError, Python 3.12) for every float, which the player's attack and
\* m_attack always are
PlayerDamageMayRaise(p, base) == TRUE

\* Player.add_status_effect(effect_data): anything that is not a StatusEffectData
\* (the dict an enemy ability or an item hands over) is refused with a warning
PlayerAddStatusEffect(p, effect, is_status_effect_data) ==
    IF is_status_effect_data
    THEN [p EXCEPT !.status_effects = Append(@, effect)]
    ELSE p

-----------------------------------------------------------------------------
(* src/enemy.py: AI *)

\* a list of candidate actions in which heal needs no low health
ActionList_HealAnyHp(e) ==
    << [type |-> "attack", weight |-> 60] >>
      \o (IF e.current_mp >= 10
          THEN << [type |-> "magic_attack", weight |-> 30] >> ELSE <<>>)
      \o (IF 10 * e.current_hp < 3 * e.max_hp
          THEN << [type |-> "defend", weight |-> 40] >> ELSE <<>>)
      \o (IF e.abilities # <<>> /\ e.current_mp >= 15
          THEN << [type |-> "ability", weight |-> 25] >> ELSE <<>>)
      \o (IF e.current_mp >= 20
          THEN << [type |-> "heal", weight |-> 80] >> ELSE <<>>)

\* the list `actions` Enemy.choose_action builds, in the order of the appends
\* (current_hp < max_hp * 0.3 and * 0.2, compared here in tenths)
ActionList(e) ==
    << [type |-> "attack", weight |-> 60] >>
      \o (IF e.current_mp >= 10
          THEN << [type |-> "magic_attack", weight |-> 30] >> ELSE <<>>)
      \o (IF 10 * e.current_hp < 3 * e.max_hp
          THEN << [type |-> "defend", weight |-> 40] >> ELSE <<>>)
      \o (IF e.abilities # <<>> /\ e.current_mp >= 15
          THEN << [type |-> "ability", weight |-> 25] >> ELSE <<>>)
      \o (IF 10 * e.current_hp < 2 * e.max_hp /\ e.current_mp >= 20
          THEN << [type |-> "heal", weight |-> 80] >> ELSE <<>>)

\* sum(action['weight'] for action in actions)
RECURSIVE TotalWeight(_)
TotalWeight(actions) ==
    IF actions = <<>> THEN 0 ELSE Head(actions).weight + TotalWeight(Tail(actions))

\* the loop that walks the list until the running weight reaches the roll
RECURSIVE PickAction(_, _, _, _)
PickAction(actions, roll, i, current_weight) ==
    IF i > Len(actions) THEN "attack"   \* the fallback after the loop
    ELSE IF roll <= current_weight + actions[i].weight THEN actions[i].type
    ELSE PickAction(actions, roll, i + 1, current_weight + actions[i].weight)

\* the action types Enemy.choose_action can return: one per value of
\* random.randint(1, total_weight)
ChooseAction(e) ==
    LET actions == ActionList(e)
    IN  IF TotalWeight(actions) = 0 THEN {"attack"}
        ELSE {PickAction(actions, roll, 1, 0) : roll \in 1..TotalWeight(actions)}

\* random.randint(15, 25) of _enemy_heal and of the Heal ability
HealAmounts == 15..25

-----------------------------------------------------------------------------
(* src/combat_system.py: enemy actions.  Each yields the set of outcomes the    *)
(* random rolls allow: [p, e, ev] with the player, the acting enemy and what     *)
(* happened; ev.raised marks an exception leaving the handler.                   *)

Outcome(p, e, ev) == [p |-> p, e |-> e, ev |-> ev]

\* CombatSystem._enemy_attack
EnemyAttack(p, e, via) ==
    LET rolls == EnemyDamageRolls(e, e.stats.attack)
    IN  (IF PlayerMayDodge(p)
         THEN {Outcome(p, e, [did |-> "attack", via |-> via, dodged |-> TRUE,
                              raised |-> FALSE])}
         ELSE {})
        \cup (IF rolls = {}
              THEN {Outcome(p, e, [did |-> "attack", via |-> via, dodged |-> FALSE,
                                   raised |-> TRUE])}
              ELSE {})
        \cup {LET damage == IF p.is_defending THEN d \div 2 ELSE d
                  r == PlayerTakeDamage(p, damage)
              IN  Outcome(r.self, e,
                          [did |-> "attack", via |-> via, dodged |-> FALSE,
                           raised |-> FALSE, rolled |-> d, handed |-> damage,
                           actual |-> r.ret, target_defending |-> p.is_defending])
              : d \in rolls}

\* CombatSystem._enemy_magic_attack
EnemyMagicAttack(p, e, via) ==
    LET paid  == EnemyUseMp(e, 10)
        e1    == paid.self
        rolls == EnemyDamageRolls(e1, e1.stats.m_attack)
    IN  IF ~paid.ret THEN EnemyAttack(p, e, "magic_attack")
        ELSE
        (IF PlayerMayDodge(p)
         THEN {Outcome(p, e1, [did |-> "magic_attack", via |-> via, dodged |-> TRUE,
                               raised |-> FALSE])}
         ELSE {})
        \cup (IF rolls = {}
              THEN {Outcome(p, e1, [did |-> "magic_attack", via |-> via,
                                    dodged |-> FALSE, raised |-> TRUE])}
              ELSE {})
        \cup {LET damage == IF p.is_defending THEN d \div 2 ELSE d
                  r == PlayerTakeMagicDamage(p, damage)
              IN  Outcome(r.self, e1,
                          [did |-> "magic_attack", via |-> via, dodged |-> FALSE,
                           raised |-> FALSE, rolled |-> d, handed |-> damage,
                           actual |-> r.ret, target_defending |-> p.is_defending])
              : d \in rolls}

\* CombatSystem._enemy_defend
EnemyDefend(p, e, via) ==
    {Outcome(p, [e EXCEPT !.is_defending = TRUE],
             [did |-> "defend", via |-> via, raised |-> FALSE])}

\* CombatSystem._enemy_heal
EnemyHealAction(p, e, via) ==
    LET paid == EnemyUseMp(e, 20)
    IN  IF ~paid.ret THEN EnemyDefend(p, e, "heal")
        ELSE {LET r == EnemyHeal(paid.self, a)
              IN  Outcome(p, r.self, [did |-> "heal", via |-> via, raised |-> FALSE,
                                      actual |-> r.ret])
              : a \in HealAmounts}

\* the status effect dict Enemy.use_ability builds for Poison Strike
PoisonEffect == [name |-> "Poison", type |-> "poison", damage |-> 5, duration |-> 3]

\* CombatSystem._enemy_use_ability with random.choice(enemy.abilities) = ability,
\* Enemy.use_ability included
EnemyUseAbilityWith(p, e, ability) ==
    CASE ability = "Heal" /\ EnemyUseMp(e, 20).ret ->
            \* result type 'heal': the controller does nothing more
            {LET r == EnemyHeal(EnemyUseMp(e, 20).self, a)
             IN  Outcome(p, r.self, [did |-> "ability", ability |-> ability,
                                     via |-> "ability", raised |-> FALSE,
                                     actual |-> r.ret])
             : a \in HealAmounts}
      [] ability = "Poison Strike" /\ EnemyUseMp(e, 15).ret ->
            LET e1    == EnemyUseMp(e, 15).self
                rolls == EnemyDamageRolls(e1, e1.stats.attack)
            IN  (IF rolls = {}
                 THEN {Outcome(p, e1, [did |-> "ability", ability |-> ability,
                                       via |-> "ability", dodged |-> FALSE,
                                       raised |-> TRUE])}
                 ELSE {})
                \cup (IF rolls # {} /\ PlayerMayDodge(p)
                      THEN {Outcome(p, e1, [did |-> "ability", ability |-> ability,
                                            via |-> "ability", dodged |-> TRUE,
                                            raised |-> FALSE])}
                      ELSE {})
                \cup {LET r == PlayerTakeDamage(p, d)
                          q == PlayerAddStatusEffect(r.self, PoisonEffect, FALSE)
                      IN  Outcome(q, e1,
                                  [did |-> "ability", ability |-> ability,
                                   via |-> "ability", dodged |-> FALSE,
                                   raised |-> FALSE, rolled |-> d, handed |-> d,
                                   actual |-> r.ret,
                                   target_defending |-> p.is_defending])
                      : d \in rolls}
      [] ability = "Fire Blast" /\ EnemyUseMp(e, 25).ret ->
            LET e1    == EnemyUseMp(e, 25).self
                rolls == EnemyDamageRolls(e1, e1.stats.m_attack)
            IN  (IF rolls = {}
                 THEN {Outcome(p, e1, [did |-> "ability", ability |-> ability,
                                       via |-> "ability", dodged |-> FALSE,
                                       raised |-> TRUE])}
                 ELSE {})
                \cup (IF rolls # {} /\ PlayerMayDodge(p)
                      THEN {Outcome(p, e1, [did |-> "ability", ability |-> ability,
                                            via |-> "ability", dodged |-> TRUE,
                                            raised |-> FALSE])}
                      ELSE {})
                \cup {LET damage == (13 * d) \div 10
                          r == PlayerTakeMagicDamage(p, damage)
                      IN  Outcome(r.self, e1,
                                  [did |-> "ability", ability |-> ability,
                                   via |-> "ability", dodged |-> FALSE,
                                   raised |-> FALSE, rolled |-> d, handed |-> damage,
                                   actual |-> r.ret,
                                   target_defending |-> p.is_defending])
                      : d \in rolls}
      [] OTHER ->
            \* use_ability returns success False: fall back to attack
            EnemyAttack(p, e, "ability")

\* CombatSystem._enemy_use_ability
EnemyUseAbility(p, e, via) ==
    IF e.abilities = <<>> THEN EnemyAttack(p, e, "ability")
    ELSE UNION {EnemyUseAbilityWith(p, e, e.abilities[k]) : k \in 1..Len(e.abilities)}

\* the dispatch of CombatSystem._process_enemy_turn on action['type']
EnemyAct(p, e, action) ==
    CASE action = "attack"       -> EnemyAttack(p, e, "attack")
      [] action = "magic_attack" -> EnemyMagicAttack(p, e, "magic_attack")
      [] action = "defend"       -> EnemyDefend(p, e, "defend")
      [] action = "heal"         -> EnemyHealAction(p, e, "heal")
      [] action = "ability"      -> EnemyUseAbility(p, e, "ability")
      [] OTHER                   -> EnemyAttack(p, e, "attack")

-----------------------------------------------------------------------------
(* Inputs: enemy templates (rows of the content loader's table), item stats *)

\* EnemyStats(level, max_hp, max_mp, attack, defense, m_attack, m_defense,
\*            agility, luck)
Stats(level, max_hp, max_mp, attack, defense, m_attack, m_defense, agility, luck) ==
    [level |-> level, max_hp |-> max_hp, max_mp |-> max_mp, attack |-> attack,
     defense |-> defense, m_attack |-> m_attack, m_defense |-> m_defense,
     agility |-> agility, luck |-> luck]

\* an item name is the sequence of its words
Slime ==
    [name |-> "Slime", type |-> "Physical",
     stats |-> Stats(1, 6, 0, 6, 0, 0, 0, 0, 0),
     abilities |-> <<>>,
     loot |-> << <<"Slime", "Essence">>, <<"Slime", "Essence">> >>]

Imp ==
    [name |-> "Imp", type |-> "Fire",
     stats |-> Stats(2, 11, 25, 5, 3, 7, 2, 6, 10),
     abilities |-> <<"Poison Strike", "Fire Blast", "Heal">>,
     loot |-> << <<"Ember", "Shard">>, <<"Imp", "Horn">> >>]

Golem ==
    [name |-> "Golem", type |-> "Null",
     stats |-> Stats(3, 9, 20, 9, 50, 0, 50, 1, 1),
     abilities |-> <<"Stomp">>,
     loot |-> << <<"Legendary", "Core", "Fragment">> >>]

\* ItemStats of one equipped piece
Armor == [attack |-> 0, defense |-> 40, m_attack |-> 0, m_defense |-> 40]

\* amounts handed to take_damage / heal / restore_mp
Amounts == {0, 1, MaxAmount \div 2, MaxAmount}

\* the MP costs the code passes to use_mp
MpCosts == {10, 15, 20, 25}

NoCall == [op |-> "none"]

\* {}: a loot mapping with no item
EmptyLoot == [item \in {} |-> 0]

-----------------------------------------------------------------------------
(* OpsSpec: the pool operations of one combatant, called in any order.  The    *)
(* player and the enemy share no state, so a run drives one of them.            *)

\* the player inside an encounter, in a defensive stance or not
OpsPlayers ==
    {[NewPlayer(MainStats, eq, hp, mp, <<>>) EXCEPT !.is_defending = d] :
        eq \in {<<>>, <<Armor>>}, hp \in {0, 10, 490}, mp \in {0, 30},
        d \in BOOLEAN}

OpsEnemies ==
    {[NewEnemy(t) EXCEPT !.is_defending = d] :
        t \in {Slime, Imp, Golem}, d \in BOOLEAN}

OpsInit ==
    /\ \/ pc = "ops_player" /\ player \in OpsPlayers /\ enemies = <<>>
       \/ /\ pc = "ops_enemy"
          /\ player = NewPlayer(MainStats, <<>>, 490, 30, <<>>)
          /\ enemies \in {<<e>> : e \in OpsEnemies}
    /\ combat_active = FALSE
    /\ turn_order = <<>>
    /\ current_turn_index = 1
    /\ total_exp_gained = 0
    /\ total_loot = EmptyLoot
    /\ result = "none"
    /\ last = NoCall

OpsFrame ==
    UNCHANGED <<combat_active, turn_order, current_turn_index, total_exp_gained,
                total_loot, pc, result>>

\* a call of a player operation Op(player, a), recorded in last
PlayerCall(name, r, a) ==
    /\ player' = r.self
    /\ last' = [op |-> name, who |-> 0, arg |-> a, ret |-> r.ret,
                hp |-> player.current_hp, mp |-> player.current_mp]
    /\ UNCHANGED enemies
    /\ OpsFrame

\* a call of an enemy operation Op(enemies[1], a), recorded in last
EnemyCall(name, r, a) ==
    /\ enemies' = <<r.self>>
    /\ last' = [op |-> name, who |-> 1, arg |-> a, ret |-> r.ret,
                hp |-> enemies[1].current_hp, mp |-> enemies[1].current_mp]
    /\ UNCHANGED player
    /\ OpsFrame

OpPlayerTakeDamage ==
    /\ pc = "ops_player"
    /\ \E a \in Amounts : PlayerCall("take_damage", PlayerTakeDamage(player, a), a)

OpPlayerTakeMagicDamage ==
    /\ pc = "ops_player"
    /\ \E a \in Amounts :
          PlayerCall("take_magic_damage", PlayerTakeMagicDamage(player, a), a)

OpPlayerHeal ==
    /\ pc = "ops_player"
    /\ \E a \in Amounts : PlayerCall("heal", PlayerHeal(player, a), a)

OpPlayerRestoreMp ==
    /\ pc = "ops_player"
    /\ \E a \in Amounts : PlayerCall("restore_mp", PlayerRestoreMp(player, a), a)

OpPlayerUseMp ==
    /\ pc = "ops_player"
    /\ \E a \in MpCosts : PlayerCall("use_mp", PlayerUseMp(player, a), a)

OpEnemyTakeDamage ==
    /\ pc = "ops_enemy"
    /\ \E a \in Amounts : EnemyCall("take_damage", EnemyTakeDamage(enemies[1], a), a)

OpEnemyTakeMagicDamage ==
    /\ pc = "ops_enemy"
    /\ \E a \in Amounts :
          EnemyCall("take_magic_damage", EnemyTakeMagicDamage(enemies[1], a), a)

OpEnemyHeal ==
    /\ pc = "ops_enemy"
    /\ \E a \in Amounts : EnemyCall("heal", EnemyHeal(enemies[1], a), a)

OpEnemyUseMp ==
    /\ pc = "ops_enemy"
    /\ \E a \in MpCosts : EnemyCall("use_mp", EnemyUseMp(enemies[1], a), a)

\* Player.to_dict: the saved fields (is_defending is not among them)
PlayerToDict(p) ==
    [main_stats         |-> p.main_stats,
     secondary_stats    |-> p.secondary_stats,
     free_points        |-> p.free_points,
     current_hp         |-> p.current_hp,
     current_mp         |-> p.current_mp,
     level              |-> p.level,
     experience         |-> p.experience,
     experience_to_next |-> p.experience_to_next,
     equipment          |-> p.equipment,
     status_effects     |-> [i \in DOMAIN p.status_effects |->
                                [k \in DOMAIN p.status_effects[i] |->
                                    p.status_effects[i][k]]]]

\* Player.from_dict: a fresh Player, every saved field assigned, then a pool
\* found at 0 under a positive maximum is taken for a missing one and filled.
\* secondary_stats is always in the dict to_dict writes, so the branch for old
\* saves is not taken.  is_defending is not set: the attribute is absent, which
\* the combat system reads as not defending.
PlayerFromDict(data) ==
    LET fresh == NewPlayer(MainStats, <<>>, 0, 0, <<>>)
        loaded ==
            [fresh EXCEPT !.main_stats         = data.main_stats,
                          !.secondary_stats    = data.secondary_stats,
                          !.free_points        = data.free_points,
                          !.current_hp         = data.current_hp,
                          !.current_mp         = data.current_mp,
                          !.level              = data.level,
                          !.experience         = data.experience,
                          !.experience_to_next = data.experience_to_next,
                          !.equipment          = data.equipment,
                          !.status_effects     = data.status_effects]
    IN  [loaded EXCEPT
            !.current_hp = IF @ = 0 /\ loaded.secondary_stats.max_hp > 0
                           THEN Tenths(loaded.secondary_stats.max_hp) ELSE @,
            !.current_mp = IF @ = 0 /\ loaded.secondary_stats.max_mp > 0
                           THEN loaded.secondary_stats.max_mp ELSE @]

\* Enemy.to_dict (is_defending is not among the saved fields)
EnemyToDict(e) ==
    [name           |-> e.name,
     type           |-> e.type,
     stats          |-> [k \in DOMAIN e.stats |-> e.stats[k]],
     current_hp     |-> e.current_hp,
     current_mp     |-> e.current_mp,
     abilities      |-> e.abilities,
     loot_table     |-> e.loot_table,
     status_effects |-> e.status_effects]

\* Enemy.from_dict: a new Enemy from the saved stats, then the saved pools and
\* effects
EnemyFromDict(data) ==
    [NewEnemy([name |-> data.name, type |-> data.type, stats |-> data.stats,
               abilities |-> data.abilities, loot |-> data.loot_table])
        EXCEPT !.current_hp     = data.current_hp,
               !.current_mp     = data.current_mp,
               !.status_effects = data.status_effects]

\* the player saved and loaded again
OpPlayerSaveLoad ==
    /\ pc = "ops_player"
    /\ player' = PlayerFromDict(PlayerToDict(player))
    /\ last' = [op |-> "save_load", who |-> 0, before |-> player]
    /\ UNCHANGED enemies
    /\ OpsFrame

\* the enemy saved and loaded again
OpEnemySaveLoad ==
    /\ pc = "ops_enemy"
    /\ enemies' = <<EnemyFromDict(EnemyToDict(enemies[1]))>>
    /\ last' = [op |-> "save_load", who |-> 1, before |-> enemies[1]]
    /\ UNCHANGED player
    /\ OpsFrame

OpsNext ==
    \/ OpPlayerSaveLoad
    \/ OpEnemySaveLoad
    \/ OpPlayerTakeDamage
    \/ OpPlayerTakeMagicDamage
    \/ OpPlayerHeal
    \/ OpPlayerRestoreMp
    \/ OpPlayerUseMp
    \/ OpEnemyTakeDamage
    \/ OpEnemyTakeMagicDamage
    \/ OpEnemyHeal
    \/ OpEnemyUseMp

OpsSpec == OpsInit /\ [][OpsNext]_vars

\* the combatant the last call was made on, after the call
Callee == IF last.who = 0 THEN player ELSE enemies[1]

\* C1 -- take_damage and take_magic_damage, of the player and of an enemy, never
\* leave current_hp below 0 and always return a damage of at least 1 (10 tenths
\* for the player, whose damage is counted in tenths), whatever the amount and
\* the defense; the pool drops by the returned damage, floored at 0.
C1_DamageAtLeastOne ==
    last.op \in {"take_damage", "take_magic_damage"} =>
        /\ Callee.current_hp >= 0
        /\ last.ret >= (IF last.who = 0 THEN Tenths(1) ELSE 1)
        /\ Callee.current_hp = Max(0, last.hp - last.ret)

\* C1 witness: the largest hit was weaker than the defense (player in armor,
\* golem) and dealt exactly the minimum
C1_Witness_HighDefense ==
    /\ last.op \in {"take_damage", "take_magic_damage"}
    /\ last.arg = MaxAmount
    /\ last.ret = (IF last.who = 0 THEN Tenths(1) ELSE 1)
    /\ Callee.current_hp > 0


\* C2 -- heal (player, enemy) and restore_mp (player) never leave current_hp /
\* current_mp above max_hp / max_mp, and return the change of the pool, which is
\* 0 when the pool was already full.
C2_HealCappedReturnsDelta ==
    /\ last.op = "heal" =>
          LET max == IF last.who = 0 THEN Tenths(player.secondary_stats.max_hp)
                     ELSE enemies[1].max_hp
          IN  /\ Callee.current_hp <= max
              /\ last.ret = Callee.current_hp - last.hp
              /\ (last.hp = max => last.ret = 0)
    /\ last.op = "restore_mp" =>
          /\ player.current_mp <= player.secondary_stats.max_mp
          /\ last.ret = player.current_mp - last.mp
          /\ (last.mp = player.secondary_stats.max_mp => last.ret = 0)

\* C2 witness: a heal larger than the missing hp was cut at max_hp: it returned
\* less than the amount asked for, and more than 0
C2_Witness_CappedHeal ==
    /\ last.op = "heal"
    /\ last.who = 1
    /\ last.ret > 0
    /\ last.ret < last.arg
    /\ enemies[1].current_hp = enemies[1].max_hp

\* C3 -- use_mp(amount) succeeds and deducts exactly amount when
\* current_mp >= amount, and otherwise fails and leaves current_mp unchanged; no
\* sequence of calls leaves a combatant's current_mp negative.
C3_UseMpGuarded ==
    /\ player.current_mp >= 0
    /\ \A i \in 1..Len(enemies) : enemies[i].current_mp >= 0
    /\ last.op = "use_mp" =>
          IF last.mp >= last.arg
          THEN last.ret = TRUE /\ Callee.current_mp = last.mp - last.arg
          ELSE last.ret = FALSE /\ Callee.current_mp = last.mp

\* C3 witness: use_mp was refused with some MP left, but less than the cost
C3_Witness_Refused ==
    /\ last.op = "use_mp"
    /\ last.ret = FALSE
    /\ last.mp > 0
    /\ Callee.current_mp = last.mp


-----------------------------------------------------------------------------
(* ProgressSpec: the player between encounters: stat allocation, reset,         *)
(* experience, resting (src/main.py handle_rest).                               *)

\* the stats the allocation menu is driven with
AllocStats == {"vitality", "intelligence"}

\* experience amounts, as get_experience_value yields them (level * 10 * multiplier)
ExpGains == {50, 220}

ProgressInit ==
    /\ pc = "progress"
    /\ player \in {NewPlayer(MainStats, eq, hp, 30, <<>>) :
                      eq \in {<<>>, <<Armor>>}, hp \in {10, 490}}
    /\ enemies = <<>>
    /\ combat_active = FALSE
    /\ turn_order = <<>>
    /\ current_turn_index = 1
    /\ total_exp_gained = 0
    /\ total_loot = EmptyLoot
    /\ result = "none"
    /\ last = NoCall

ProgressFrame ==
    UNCHANGED <<enemies, combat_active, turn_order, current_turn_index,
                total_exp_gained, total_loot, pc, result>>

\* what last keeps of the player before a progression call
Before(p) ==
    [level |-> p.level, experience |-> p.experience,
     experience_to_next |-> p.experience_to_next,
     main_stats |-> p.main_stats, free_points |-> p.free_points,
     max_hp |-> p.secondary_stats.max_hp, max_mp |-> p.secondary_stats.max_mp,
     current_hp |-> p.current_hp, current_mp |-> p.current_mp]

ProgAllocate ==
    /\ pc = "progress"
    /\ \E stat \in AllocStats, points \in {-1, 1} :
          LET r == AllocateStatPoint(player, stat, points)
          IN  /\ player' = r.self
              /\ last' = [op |-> "allocate_stat_point", stat |-> stat,
                          arg |-> points, ret |-> r.ret]
    /\ ProgressFrame

ProgReset ==
    /\ pc = "progress"
    /\ player' = ResetStats(player)
    /\ last' = [op |-> "reset_stats"]
    /\ ProgressFrame

ProgGainExperience ==
    /\ pc = "progress"
    /\ player.level < MaxLevel
    /\ \E exp \in ExpGains :
          /\ player' = GainExperience(player, exp)
          /\ last' = [op |-> "gain_experience", arg |-> exp, before |-> Before(player)]
    /\ ProgressFrame

\* Game.handle_rest: both pools back to their maximum
ProgRest ==
    /\ pc = "progress"
    /\ player' = [player EXCEPT
                     !.current_hp = Tenths(player.secondary_stats.max_hp),
                     !.current_mp = player.secondary_stats.max_mp]
    /\ last' = [op |-> "rest"]
    /\ ProgressFrame

\* Game.handle_stat_allocation with no free point left: the derived stats are
\* calculated once more before the confirmation menu is shown
ProgRecalculate ==
    /\ pc = "progress"
    /\ player.free_points = 0
    /\ player' = [player EXCEPT !.secondary_stats =
                      CalculateSecondaryStatsFrom(@, player.main_stats,
                                                  player.equipment)]
    /\ last' = [op |-> "calculate_secondary_stats",
                before |-> player.secondary_stats]
    /\ ProgressFrame

ProgressNext ==
    \/ ProgAllocate
    \/ ProgReset
    \/ ProgGainExperience
    \/ ProgRest
    \/ ProgRecalculate

ProgressSpec == ProgressInit /\ [][ProgressNext]_vars

\* C4 -- in every reachable state 0 <= current_hp <= max_hp and
\* 0 <= current_mp <= max_mp, for the player and every enemy, after any sequence
\* of combat actions, level-ups, allocate_stat_point calls and reset_stats.
C4_PoolsWithinBounds ==
    /\ 0 <= player.current_hp
    /\ player.current_hp <= Tenths(player.secondary_stats.max_hp)
    /\ 0 <= player.current_mp
    /\ player.current_mp <= player.secondary_stats.max_mp
    /\ \A i \in 1..Len(enemies) :
          /\ 0 <= enemies[i].current_hp /\ enemies[i].current_hp <= enemies[i].max_hp
          /\ 0 <= enemies[i].current_mp /\ enemies[i].current_mp <= enemies[i].max_mp

\* C9 -- gain_experience(exp) with experience + exp >= experience_to_next ends
\* with the level raised by at least 1, experience_to_next strictly larger than
\* before, and 0 <= experience < experience_to_next.
C9_LevelUpSettles ==
    (/\ last.op = "gain_experience"
     /\ last.before.experience + last.arg >= last.before.experience_to_next)
    => /\ player.level >= last.before.level + 1
       /\ player.experience_to_next > last.before.experience_to_next
       /\ 0 <= player.experience
       /\ player.experience < player.experience_to_next

\* C9 witness: one gain_experience crossed two thresholds
C9_Witness_TwoLevels ==
    /\ last.op = "gain_experience"
    /\ player.level >= last.before.level + 2
    /\ player.experience > 0

-----------------------------------------------------------------------------
(* src/enemy.py: rewards *)

HasWord(item, w) == \E k \in 1..Len(item) : item[k] = w

\* random.randint(1, 3) for a name ending in Fragment or Shard, random.randint(1, 2)
\* for a name containing Essence, else 1
ItemQuantities_FromZero(item) ==
    IF item[Len(item)] \in {"Fragment", "Shard"} THEN 0..3
    ELSE IF HasWord(item, "Essence") THEN 0..2
    ELSE {1}

\* the quantities Enemy.get_loot can give a dropped item
ItemQuantities(item) ==
    IF item[Len(item)] \in {"Fragment", "Shard"} THEN 1..3
    ELSE IF HasWord(item, "Essence") THEN 1..2
    ELSE {1}

Rarities == {"common", "uncommon", "rare", "epic", "legendary", "mythical", "trash"}

\* Enemy._determine_item_rarity: the keyword heuristic, or whatever the rarity map
\* loaded from the data files holds for the item
ItemRarities(item) ==
    Rarities \cup
    {CASE HasWord(item, "Mythical") \/ HasWord(item, "Omnific") -> "mythical"
       [] HasWord(item, "Legendary") -> "legendary"
       [] HasWord(item, "Epic")      -> "epic"
       [] HasWord(item, "Rare")      -> "rare"
       [] HasWord(item, "Uncommon")  -> "uncommon"
       [] HasWord(item, "Trash")     -> "trash"
       [] OTHER                      -> "common"}

\* drop_chance of Enemy.get_loot in tenths of a percent:
\* 30 + luck * 0.5 + discovery * (10, 5, 2, 1, 0.5, 0.2 by rarity)
DropChance(e, p, rarity) ==
    300 + 5 * e.stats.luck
        + p.secondary_stats.discovery *
            (CASE rarity = "common"    -> 100
               [] rarity = "uncommon"  -> 50
               [] rarity = "rare"      -> 20
               [] rarity = "epic"      -> 10
               [] rarity = "legendary" -> 5
               [] rarity = "mythical"  -> 2
               [] OTHER                -> 0)

\* loot[item] = loot.get(item, 0) + quantity
AddLoot(loot, item, quantity) ==
    [x \in DOMAIN loot \cup {item} |->
        (IF x \in DOMAIN loot THEN loot[x] ELSE 0) + (IF x = item THEN quantity ELSE 0)]

\* the loop of Enemy.get_loot from loot_table[i] on: the mappings it can return
RECURSIVE LootFrom(_, _, _, _)
LootFrom(e, p, i, loot) ==
    IF i > Len(e.loot_table) THEN {loot}
    ELSE LET item == e.loot_table[i]
             kept == IF \E r \in ItemRarities(item) : DropChance(e, p, r) < 1000
                     THEN LootFrom(e, p, i + 1, loot) ELSE {}
             dropped ==
                 IF \E r \in ItemRarities(item) : DropChance(e, p, r) > 0
                 THEN UNION {LootFrom(e, p, i + 1, AddLoot(loot, item, q)) :
                                q \in ItemQuantities(item)}
                 ELSE {}
         IN  kept \cup dropped

\* Enemy.get_loot(player, rarity_map)
GetLoot(e, p) == LootFrom(e, p, 1, EmptyLoot)

\* the experience value without the type multiplier
GetExperienceValue_NoMultiplier(e) == e.stats.level * 10

\* Enemy.get_experience_value: int(level * 10 * multiplier)
GetExperienceValue(e) ==
    e.stats.level *
        (CASE e.type \in {"Fire", "Water", "Earth", "Wind", "Thunder", "Ice"} -> 11
           [] e.type \in {"Light", "Darkness"} -> 12
           [] e.type = "Null" -> 15
           [] OTHER -> 10)

-----------------------------------------------------------------------------
(* src/combat_system.py: turn order, end check, rewards *)

\* a participant is 0 for the player and i for enemies[i]
Participants(es) == 0..Len(es)

\* base_agility + random.randint(1, 10), the roll given
Initiative(p, es, rolls, i) ==
    (IF i = 0 THEN p.main_stats.agility + p.main_stats.speed
     ELSE es[i].stats.agility) + rolls[i]

\* list.sort(key, reverse=True) is stable: x goes after every entry whose key is
\* not smaller
InsertByKey(sorted, x, key) ==
    LET before == {j \in 1..Len(sorted) : key[sorted[j]] >= key[x]}
        n      == Cardinality(before)
    IN  SubSeq(sorted, 1, n) \o <<x>> \o SubSeq(sorted, n + 1, Len(sorted))

RECURSIVE SortFrom(_, _, _, _)
SortFrom(sorted, i, last_i, key) ==
    IF i > last_i THEN sorted
    ELSE SortFrom(InsertByKey(sorted, i, key), i + 1, last_i, key)

\* the sort keeping only the first of the participants with equal initiative
InitializeTurnOrder_DropTies(p, es, rolls) ==
    LET key == [i \in Participants(es) |-> Initiative(p, es, rolls, i)]
        all == SortFrom(<<>>, 0, Len(es), key)
    IN  SelectSeq(all, LAMBDA x : \A y \in Participants(es) : key[y] = key[x] => y >= x)

\* CombatSystem._initialize_turn_order: the new turn_order
InitializeTurnOrder(p, es, rolls) ==
    LET key == [i \in Participants(es) |-> Initiative(p, es, rolls, i)]
    IN  SortFrom(<<>>, 0, Len(es), key)

\* the actor at a 0-based index
ActorAt(order, index) == order[index + 1]

\* _advance_turn that steps once and skips nobody
AdvanceTurn_NoSkip(order, index, es) ==
    [index |-> (index + 1) % Len(order), attempts |-> 0]

\* the skip loop of CombatSystem._advance_turn
RECURSIVE AdvanceSkip(_, _, _, _)
AdvanceSkip(order, index, es, attempts) ==
    IF attempts < Len(order)
    THEN LET actor == ActorAt(order, index)
         IN  IF actor = 0 \/ EnemyIsAlive(es[actor])
             THEN [index |-> index, attempts |-> attempts]
             ELSE AdvanceSkip(order, (index + 1) % Len(order), es, attempts + 1)
    ELSE [index |-> index, attempts |-> attempts]

\* CombatSystem._advance_turn: the new current_turn_index and the number of skips
AdvanceTurn(order, index, es) ==
    AdvanceSkip(order, (index + 1) % Len(order), es, 0)

\* the indices of [e for e in self.enemies if e.is_alive()]
AliveEnemies(es) == {i \in 1..Len(es) : EnemyIsAlive(es[i])}

\* an end check that looks at the enemies first
CheckCombatEnd_EnemiesFirst(p, es) ==
    IF AliveEnemies(es) = {} THEN "VICTORY"
    ELSE IF ~PlayerIsAlive(p) THEN "DEFEAT"
    ELSE "ONGOING"

\* CombatSystem._check_combat_end
CheckCombatEnd(p, es) ==
    IF ~PlayerIsAlive(p) THEN "DEFEAT"
    ELSE IF AliveEnemies(es) = {} THEN "VICTORY"
    ELSE "ONGOING"

\* the reward loop of CombatSystem._end_combat from enemies[i] on: the
\* [exp, loot, loots] it can end with, loots being the get_loot results in order
RECURSIVE RewardsFrom(_, _, _, _)
RewardsFrom(p, es, i, acc) ==
    IF i > Len(es) THEN {acc}
    ELSE UNION {RewardsFrom(p, es, i + 1,
                    [exp   |-> acc.exp + GetExperienceValue(es[i]),
                     loot  |-> LET items == DOMAIN l
                                   merged == DOMAIN acc.loot \cup items
                               IN  [x \in merged |->
                                       (IF x \in DOMAIN acc.loot THEN acc.loot[x] ELSE 0)
                                       + (IF x \in items THEN l[x] ELSE 0)],
                     loots |-> Append(acc.loots, l)])
                : l \in GetLoot(es[i], p)}

Rewards(p, es) ==
    RewardsFrom(p, es, 1, [exp |-> 0, loot |-> EmptyLoot, loots |-> <<>>])

-----------------------------------------------------------------------------
(* Spec: one call of CombatSystem.execute_combat_encounter(player, enemies, ui). *)
(* pc is the position in its loop: start, loop (top of the while), turn (the     *)
(* current actor acts), status, advance, check (the check after the turn),       *)
(* returned, raised (an exception left the call).                                *)

\* the hit points (tenths) and MP the player enters with: 1 HP and no MP is what
\* handle_combat_defeat leaves, the other is a wounded player
StartPools == {<<10, 0>>, <<30, 30>>}

\* the player as character creation leaves it with the free points unspent, or
\* with two of them on agility
SpecPlayers ==
    {NewPlayer(MainStats, <<>>, hm[1], hm[2], <<>>) : hm \in StartPools}
      \cup {[AllocateStatPoint(NewPlayer(MainStats, <<>>, hm[1], hm[2], <<>>),
                               "agility", 2).self
                EXCEPT !.experience = 95] : hm \in StartPools}

\* the enemies handed to the encounter: none, one or two, fresh from the database
Rosters ==
    {<<>>, <<NewEnemy(Slime)>>, <<NewEnemy(Imp)>>,
     <<NewEnemy(Slime), NewEnemy(Slime)>>, <<NewEnemy(Slime), NewEnemy(Imp)>>,
     \* ... or with an effect put on one of them by add_status_effect
     <<EnemyAddStatusEffect(NewEnemy(Slime),
                            [type |-> "regen", duration |-> 3, amount |-> <<>>]),
       NewEnemy(Slime)>>}

\* total_exp_gained is 0 in a new CombatSystem, or what the encounter before left
Init ==
    /\ pc = "start"
    /\ player \in SpecPlayers
    /\ enemies \in Rosters
    /\ combat_active = FALSE
    /\ turn_order = <<>>
    /\ current_turn_index = 0
    /\ total_exp_gained \in {0, 30}
    /\ total_loot = EmptyLoot
    /\ result = "none"
    /\ last = NoCall

\* CombatSystem.start_combat
StartCombat ==
    /\ pc = "start"
    /\ \E rolls \in [Participants(enemies) -> 1..10] :
          turn_order' = InitializeTurnOrder(player, enemies, rolls)
    /\ current_turn_index' = 0
    /\ combat_active' = TRUE
    /\ total_exp_gained' = 0
    /\ total_loot' = EmptyLoot
    /\ player' = [player EXCEPT !.is_defending = FALSE]
    /\ enemies' = [i \in 1..Len(enemies) |-> [enemies[i] EXCEPT !.is_defending = FALSE]]
    /\ pc' = "loop"
    /\ last' = [op |-> "start_combat"]
    /\ UNCHANGED result

\* an _end_combat that rewards the player whatever the result
EndCombat_RewardsAlways(r, event) ==
    /\ combat_active' = FALSE
    /\ result' = r
    /\ pc' = "returned"
    /\ \E w \in Rewards(player, enemies) :
          /\ total_exp_gained' = w.exp
          /\ total_loot' = w.loot
          /\ player' = GainExperience(player, w.exp)
          /\ last' = [op |-> "end_combat", result |-> r, loots |-> w.loots,
                      before |-> player]

\* CombatSystem._end_combat(r) followed by return r
EndCombat(r, event) ==
    /\ combat_active' = FALSE
    /\ result' = r
    /\ pc' = "returned"
    /\ IF r = "VICTORY"
       THEN \E w \in Rewards(player, enemies) :
               /\ total_exp_gained' = w.exp
               /\ total_loot' = w.loot
               /\ player' = GainExperience(player, w.exp)
               /\ last' = [op |-> "end_combat", result |-> r, loots |-> w.loots,
                           before |-> player]
       ELSE /\ UNCHANGED <<total_exp_gained, total_loot, player>>
            /\ last' = event

\* the check at the top of the while loop finds the encounter over
LoopEnds ==
    /\ pc = "loop" /\ combat_active
    /\ CheckCombatEnd(player, enemies) # "ONGOING"
    /\ EndCombat(CheckCombatEnd(player, enemies),
                 [op |-> "end_combat", result |-> CheckCombatEnd(player, enemies)])
    /\ UNCHANGED <<enemies, turn_order, current_turn_index>>

\* ... or ongoing: the current actor is looked up and gets the turn; for the
\* player this is _process_player_turn up to the first show_combat_menu, which
\* resets is_defending
LoopContinues ==
    /\ pc = "loop" /\ combat_active
    /\ CheckCombatEnd(player, enemies) = "ONGOING"
    /\ turn_order # <<>>
    /\ pc' = "turn"
    /\ player' = IF ActorAt(turn_order, current_turn_index) = 0
                 THEN [player EXCEPT !.is_defending = FALSE] ELSE player
    /\ last' = [op |-> "get_current_actor",
                actor |-> ActorAt(turn_order, current_turn_index)]
    /\ UNCHANGED <<enemies, combat_active, turn_order, current_turn_index,
                   total_exp_gained, total_loot, result>>

PlayerHasTurn == pc = "turn" /\ ActorAt(turn_order, current_turn_index) = 0

TurnFrame == UNCHANGED <<combat_active, turn_order, current_turn_index,
                         total_exp_gained, total_loot, result>>

\* the targets _player_attack / _player_magic_attack can end up with: the only
\* living enemy, or the one show_target_selection picks among the living
Targets == AliveEnemies(enemies)

\* _process_player_turn with choice "1": _player_attack
PlayerAttack ==
    /\ PlayerHasTurn
    /\ LET p == player
           base == p.secondary_stats.attack
       IN  IF Targets = {}
           THEN /\ player' = p /\ UNCHANGED enemies /\ pc' = "status"
                /\ last' = [op |-> "player_attack", outcome |-> "no_enemies"]
           ELSE \E t \in Targets :
                  \/ /\ EnemyMayDodge(enemies[t])
                     /\ player' = p /\ UNCHANGED enemies /\ pc' = "status"
                     /\ last' = [op |-> "player_attack", outcome |-> "dodged",
                                 target |-> t]
                  \/ /\ PlayerDamageMayRaise(p, base) \/ PlayerDamageRolls(p, base) = {}
                     /\ player' = p /\ UNCHANGED enemies /\ pc' = "raised"
                     /\ last' = [op |-> "player_attack", outcome |-> "raised",
                                 target |-> t]
                  \/ \E d \in PlayerDamageRolls(p, base) :
                        LET r == EnemyTakeDamage(enemies[t], d)
                        IN  /\ player' = p
                            /\ enemies' = [enemies EXCEPT ![t] = r.self]
                            /\ pc' = "status"
                            /\ last' = [op |-> "player_attack", outcome |-> "hit",
                                        target |-> t, rolled |-> d, actual |-> r.ret,
                                        target_defending |-> enemies[t].is_defending]
    /\ TurnFrame

\* _process_player_turn with choice "2": _player_magic_attack
PlayerMagicAttack ==
    /\ PlayerHasTurn
    /\ LET p0   == player
           paid == PlayerUseMp(p0, 10)
           p    == paid.self
           base == p.secondary_stats.m_attack
       IN  IF ~paid.ret
           THEN /\ player' = p /\ UNCHANGED enemies /\ pc' = "status"
                /\ last' = [op |-> "player_magic_attack", outcome |-> "no_mp"]
           ELSE IF Targets = {}
           THEN /\ player' = p /\ UNCHANGED enemies /\ pc' = "status"
                /\ last' = [op |-> "player_magic_attack", outcome |-> "no_enemies"]
           ELSE \E t \in Targets :
                  \/ /\ EnemyMayDodge(enemies[t])
                     /\ player' = p /\ UNCHANGED enemies /\ pc' = "status"
                     /\ last' = [op |-> "player_magic_attack", outcome |-> "dodged",
                                 target |-> t]
                  \/ /\ PlayerDamageMayRaise(p, base) \/ PlayerDamageRolls(p, base) = {}
                     /\ player' = p /\ UNCHANGED enemies /\ pc' = "raised"
                     /\ last' = [op |-> "player_magic_attack", outcome |-> "raised",
                                 target |-> t]
                  \/ \E d \in PlayerDamageRolls(p, base) :
                        LET r == EnemyTakeMagicDamage(enemies[t], d)
                        IN  /\ player' = p
                            /\ enemies' = [enemies EXCEPT ![t] = r.self]
                            /\ pc' = "status"
                            /\ last' = [op |-> "player_magic_attack",
                                        outcome |-> "hit",
                                        target |-> t, rolled |-> d, actual |-> r.ret,
                                        target_defending |-> enemies[t].is_defending]
    /\ TurnFrame

\* _process_player_turn with choice "3": _player_defend
PlayerDefend ==
    /\ PlayerHasTurn
    /\ player' = [player EXCEPT !.is_defending = TRUE]
    /\ pc' = "status"
    /\ last' = [op |-> "player_defend"]
    /\ UNCHANGED enemies
    /\ TurnFrame

\* a use item that counts as the action of the turn
PlayerUseItem_ConsumesTurn ==
    /\ PlayerHasTurn
    /\ pc' = "status"
    /\ last' = [op |-> "player_use_item"]
    /\ UNCHANGED <<player, enemies>>
    /\ TurnFrame

\* _process_player_turn with choice "4": _player_use_item returns False and the
\* menu is shown again
PlayerUseItem ==
    /\ PlayerHasTurn
    /\ UNCHANGED player
    /\ pc' = "turn"
    /\ last' = [op |-> "player_use_item"]
    /\ UNCHANGED enemies
    /\ TurnFrame

\* _process_player_turn with a choice that is none of "1".."5" (the integer that
\* UIManager.show_menu returns included): "Invalid choice!", menu again
PlayerInvalidChoice ==
    /\ PlayerHasTurn
    /\ UNCHANGED player
    /\ pc' = "turn"
    /\ last' = [op |-> "invalid_choice"]
    /\ UNCHANGED enemies
    /\ TurnFrame

\* the run chance with the dead enemies counted too
RunChance_AllEnemies(p, es) ==
    LET player_agility == p.main_stats.agility + p.main_stats.speed
        agilities == {es[i].stats.agility : i \in 1..Len(es)}
        enemy_agility == CHOOSE a \in agilities : \A b \in agilities : a >= b
    IN  Max(10, Min(90, 50 + (player_agility - enemy_agility) * 5))

\* run_chance of _player_run_away, percent
RunChance(p, es) ==
    LET player_agility == p.main_stats.agility + p.main_stats.speed
        agilities == {es[i].stats.agility : i \in AliveEnemies(es)}
        enemy_agility == CHOOSE a \in agilities : \A b \in agilities : a >= b
    IN  Max(10, Min(90, 50 + (player_agility - enemy_agility) * 5))

\* _process_player_turn with choice "5", the roll failing: the turn is used
PlayerRunAwayFails ==
    /\ PlayerHasTurn
    /\ RunChance(player, enemies) < 100
    /\ UNCHANGED player
    /\ pc' = "status"
    /\ last' = [op |-> "player_run_away", escaped |-> FALSE,
                run_chance |-> RunChance(player, enemies)]
    /\ UNCHANGED enemies
    /\ TurnFrame

\* a successful run away after which the loop carries on with the turn
PlayerRunAwaySucceeds_TurnGoesOn ==
    /\ PlayerHasTurn
    /\ RunChance(player, enemies) > 0
    /\ combat_active' = FALSE
    /\ pc' = "status"
    /\ last' = [op |-> "player_run_away", escaped |-> TRUE,
                run_chance |-> RunChance(player, enemies)]
    /\ UNCHANGED <<player, enemies, turn_order, current_turn_index,
                   total_exp_gained, total_loot, result>>

\* ... the roll succeeding: combat_active = False, then the loop ends the
\* encounter with FLED
PlayerRunAwaySucceeds ==
    /\ PlayerHasTurn
    /\ RunChance(player, enemies) > 0
    /\ UNCHANGED player
    /\ combat_active' = FALSE
    /\ result' = "FLED"
    /\ pc' = "returned"
    /\ last' = [op |-> "player_run_away", escaped |-> TRUE,
                run_chance |-> RunChance(player, enemies)]
    /\ UNCHANGED <<enemies, turn_order, current_turn_index, total_exp_gained,
                   total_loot>>

\* CombatSystem._process_enemy_turn for the current actor
EnemyTurn ==
    /\ pc = "turn"
    /\ ActorAt(turn_order, current_turn_index) # 0
    /\ LET i == ActorAt(turn_order, current_turn_index)
       IN  IF ~EnemyIsAlive(enemies[i])
           THEN /\ UNCHANGED <<player, enemies>> /\ pc' = "status"
                /\ last' = [op |-> "enemy_turn", who |-> i, action |-> "none"]
           ELSE LET e == [enemies[i] EXCEPT !.is_defending = FALSE]
                IN  \E action \in ChooseAction(e) :
                    \E o \in EnemyAct(player, e, action) :
                       /\ player' = o.p
                       /\ enemies' = [enemies EXCEPT ![i] = o.e]
                       /\ pc' = IF o.ev.raised THEN "raised" ELSE "status"
                       /\ last' = [op |-> "enemy_turn", who |-> i, action |-> action,
                                   hp |-> player.current_hp, ev |-> o.ev,
                                   e_hp |-> e.current_hp, e_mp |-> e.current_mp]
    /\ TurnFrame

\* a status tick that also ends every defensive stance
ProcessStatusEffects_ClearsStance ==
    /\ pc = "status"
    /\ player' = [PlayerProcessStatusEffects(player) EXCEPT !.is_defending = FALSE]
    /\ enemies' = [i \in 1..Len(enemies) |->
                      [enemies[i] EXCEPT !.is_defending = FALSE]]
    /\ pc' = "advance"
    /\ last' = [op |-> "process_status_effects"]
    /\ TurnFrame

\* a status tick that does not leave the dead enemies out
ProcessStatusEffects_TicksDead ==
    /\ pc = "status"
    /\ player' = PlayerProcessStatusEffects(player)
    /\ enemies' = [i \in 1..Len(enemies) |-> EnemyProcessStatusEffects(enemies[i])]
    /\ pc' = "advance"
    /\ last' = [op |-> "process_status_effects"]
    /\ TurnFrame

\* CombatSystem._process_status_effects
ProcessStatusEffects ==
    /\ pc = "status"
    /\ player' = PlayerProcessStatusEffects(player)
    /\ enemies' = [i \in 1..Len(enemies) |->
                      IF EnemyIsAlive(enemies[i])
                      THEN EnemyProcessStatusEffects(enemies[i]) ELSE enemies[i]]
    /\ pc' = "advance"
    /\ last' = [op |-> "process_status_effects"]
    /\ TurnFrame

\* if self.is_combat_active(): self._advance_turn()
AdvanceTurnStep ==
    /\ pc = "advance"
    /\ LET a == AdvanceTurn(turn_order, current_turn_index, enemies)
       IN  /\ current_turn_index' = IF combat_active THEN a.index
                                    ELSE current_turn_index
           /\ last' = [op |-> "advance_turn", from |-> current_turn_index,
                       attempts |-> a.attempts]
    /\ pc' = "check"
    /\ UNCHANGED <<player, enemies, combat_active, turn_order, total_exp_gained,
                   total_loot, result>>

\* the check after the turn finds the encounter over
CheckEnds ==
    /\ pc = "check"
    /\ CheckCombatEnd(player, enemies) # "ONGOING"
    /\ EndCombat(CheckCombatEnd(player, enemies),
                 [op |-> "end_combat", result |-> CheckCombatEnd(player, enemies)])
    /\ UNCHANGED <<enemies, turn_order, current_turn_index>>

\* ... or ongoing: back to the top of the loop
CheckContinues ==
    /\ pc = "check"
    /\ CheckCombatEnd(player, enemies) = "ONGOING"
    /\ pc' = "loop"
    /\ last' = [op |-> "check_combat_end", result |-> "ONGOING"]
    /\ UNCHANGED <<player, enemies, combat_active, turn_order, current_turn_index,
                   total_exp_gained, total_loot, result>>

Next ==
    \/ StartCombat
    \/ LoopEnds
    \/ LoopContinues
    \/ PlayerAttack
    \/ PlayerMagicAttack
    \/ PlayerDefend
    \/ PlayerUseItem
    \/ PlayerInvalidChoice
    \/ PlayerRunAwayFails
    \/ PlayerRunAwaySucceeds
    \/ EnemyTurn
    \/ ProcessStatusEffects
    \/ AdvanceTurnStep
    \/ CheckEnds
    \/ CheckContinues

Spec == Init /\ [][Next]_vars

-----------------------------------------------------------------------------
(* Properties of the encounter *)

\* C5: the end check reports DEFEAT whenever the player's current_hp is 0, also
\* with every enemy dead; VICTORY exactly when the player is alive and no enemy
\* is; ONGOING otherwise (for the enemies of the state with any subset of them
\* killed, and the player as is or at 0 HP).  A player at 1 HP who is hit by an
\* enemy (not dodged) is at 0 HP, stays there through the status tick and the
\* advance, and the check that follows returns DEFEAT.
C5_DefeatHasPriority ==
    /\ [](/\ \A K \in SUBSET (1..Len(enemies)) : \A hp \in {0, player.current_hp} :
               LET es == [i \in 1..Len(enemies) |->
                             IF i \in K THEN [enemies[i] EXCEPT !.current_hp = 0]
                             ELSE enemies[i]]
                   p  == [player EXCEPT !.current_hp = hp]
                   all_dead == \A i \in 1..Len(es) : es[i].current_hp = 0
               IN  /\ hp = 0 => CheckCombatEnd(p, es) = "DEFEAT"
                   /\ CheckCombatEnd(p, es) = "VICTORY" <=> (hp > 0 /\ all_dead)
                   /\ CheckCombatEnd(p, es) = "ONGOING" <=> (hp > 0 /\ ~all_dead)
          /\ (last.op = "enemy_turn" /\ last.action # "none"
                /\ "handed" \in DOMAIN last.ev /\ last.hp = 10)
               => player.current_hp = 0)
    /\ [][(pc \in {"status", "advance", "check"} /\ player.current_hp = 0)
            => /\ player'.current_hp = 0
               /\ pc' # "raised"
               /\ pc' = "returned" => result' = "DEFEAT"
               /\ pc = "check" => pc' = "returned"]_vars

\* C5 witness: an enemy's hit has just taken the player from 1 HP to 0
C5_Witness_HitAtOneHp ==
    /\ pc = "status"
    /\ last.op = "enemy_turn" /\ last.action # "none"
    /\ "handed" \in DOMAIN last.ev
    /\ last.hp = 10
    /\ player.current_hp = 0
    /\ AliveEnemies(enemies) # {}

\* C6: when execute_combat_encounter has returned, the result is VICTORY, DEFEAT
\* or FLED, combat_active is false, DEFEAT comes with the player at 0 HP, VICTORY
\* with the player alive and every enemy at 0 HP, FLED with the player alive and
\* straight after a successful run away
C6_ResultMatchesState ==
    pc = "returned" =>
       /\ result \in {"VICTORY", "DEFEAT", "FLED"}
       /\ ~combat_active
       /\ result = "DEFEAT" => player.current_hp = 0
       /\ result = "VICTORY" =>
             /\ player.current_hp > 0
             /\ \A i \in 1..Len(enemies) : enemies[i].current_hp = 0
       /\ result = "FLED" =>
             /\ player.current_hp > 0
             /\ last.op = "player_run_away" /\ last.escaped

\* C6 witness: a victory over two enemies has been returned
C6_Witness_VictoryOverTwo ==
    /\ pc = "returned" /\ result = "VICTORY"
    /\ Len(enemies) = 2
    /\ total_exp_gained > 0

\* C7: once start_combat has run, turn_order holds every participant exactly
\* once; no later step changes it; and while every enemy is alive, advancing
\* len(turn_order) times from the current index comes back to it
C7_TurnOrderPermutation ==
    /\ [](pc # "start" =>
            /\ Len(turn_order) = Len(enemies) + 1
            /\ \A x \in Participants(enemies) :
                  Cardinality({k \in 1..Len(turn_order) : turn_order[k] = x}) = 1
            /\ AliveEnemies(enemies) = 1..Len(enemies) =>
                  LET RECURSIVE Advanced(_, _)
                      Advanced(index, times) ==
                          IF times = 0 THEN index
                          ELSE Advanced(AdvanceTurn(turn_order, index, enemies).index,
                                        times - 1)
                  IN  Advanced(current_turn_index, Len(turn_order))
                         = current_turn_index)
    /\ [][pc # "start" => turn_order' = turn_order]_vars

\* C7 witness: three participants, all alive, the player not first, and the
\* advance has just wrapped around to the head of the order
C7_Witness_WrappedAround ==
    /\ pc = "check" /\ last.op = "advance_turn"
    /\ Len(turn_order) = 3
    /\ turn_order[1] # 0
    /\ AliveEnemies(enemies) = {1, 2}
    /\ last.from = 2 /\ current_turn_index = 0

\* C8: _advance_turn, from any index and with any subset of the enemies dead,
\* makes at most len(turn_order) skips and stops on the player or on a living
\* enemy; so does every advance of the encounter
C8_AdvanceLandsOnLiving ==
    pc # "start" =>
       /\ \A K \in SUBSET (1..Len(enemies)) : \A index \in 0..(Len(turn_order) - 1) :
             LET es == [i \in 1..Len(enemies) |->
                           IF i \in K THEN [enemies[i] EXCEPT !.current_hp = 0]
                           ELSE enemies[i]]
                 a  == AdvanceTurn(turn_order, index, es)
                 actor == ActorAt(turn_order, a.index)
             IN  /\ a.attempts <= Len(turn_order)
                 /\ a.index \in 0..(Len(turn_order) - 1)
                 /\ actor = 0 \/ es[actor].current_hp > 0
       /\ last.op = "advance_turn" =>
             LET actor == ActorAt(turn_order, current_turn_index)
             IN  /\ last.attempts <= Len(turn_order)
                 /\ actor = 0 \/ enemies[actor].current_hp > 0

\* C8 witness: an advance has just skipped a dead enemy
C8_Witness_SkippedDead ==
    /\ pc = "check" /\ last.op = "advance_turn"
    /\ last.attempts >= 1
    /\ Len(turn_order) = 3
    /\ AliveEnemies(enemies) # {}

\* C10: every mapping get_loot can return for an enemy of the encounter, every
\* mapping it did return, and the merged total_loot hold quantities >= 1 only; an
\* item is in total_loot exactly when some enemy dropped it
C10_LootQuantitiesPositive ==
    /\ \A i \in 1..Len(enemies) : \A l \in GetLoot(enemies[i], player) :
          \A item \in DOMAIN l : l[item] >= 1
    /\ \A item \in DOMAIN total_loot : total_loot[item] >= 1
    /\ (last.op = "end_combat" /\ result = "VICTORY") =>
          /\ \A k \in 1..Len(last.loots) : \A item \in DOMAIN last.loots[k] :
                last.loots[k][item] >= 1
          /\ \A item \in DOMAIN total_loot :
                \E k \in 1..Len(last.loots) : item \in DOMAIN last.loots[k]
          /\ \A k \in 1..Len(last.loots) : DOMAIN last.loots[k] \subseteq DOMAIN total_loot
          /\ LET RECURSIVE Dropped(_, _)
                  Dropped(item, k) ==
                      IF k = 0 THEN 0
                      ELSE Dropped(item, k - 1)
                             + (IF item \in DOMAIN last.loots[k]
                                THEN last.loots[k][item] ELSE 0)
              IN  \A item \in DOMAIN total_loot :
                     total_loot[item] = Dropped(item, Len(last.loots))

\* C10 witness: a victory over two enemies with an item dropped more than once
\* while another item of a loot table did not drop
C10_Witness_MergedAndAbsent ==
    /\ pc = "returned" /\ result = "VICTORY"
    /\ Len(enemies) = 2
    /\ \E item \in DOMAIN total_loot : total_loot[item] >= 2
    /\ \E i \in 1..Len(enemies) : \E k \in 1..Len(enemies[i].loot_table) :
          enemies[i].loot_table[k] \notin DOMAIN total_loot

\* C11: the experience value of an enemy is level x 10 x type multiplier
\* (Physical/Nature 1.0; Fire/Water/Earth/Wind/Thunder/Ice 1.1; Light/Darkness
\* 1.2; Null 1.5) for every type and the levels 1..12; after a VICTORY
\* total_exp_gained is the sum of these values over the roster, and the player is
\* the player before the rewards with exactly that amount passed through
\* gain_experience
C11_VictoryExperience ==
    LET Tenfold(type) ==
            CASE type \in {"Physical", "Nature"} -> 10
              [] type \in {"Fire", "Water", "Earth", "Wind", "Thunder", "Ice"} -> 11
              [] type \in {"Light", "Darkness"} -> 12
              [] type = "Null" -> 15
        Value(level, type) == (level * 10 * Tenfold(type)) \div 10
        RECURSIVE Total(_)
        Total(k) ==
            IF k = 0 THEN 0
            ELSE Total(k - 1) + Value(enemies[k].stats.level, enemies[k].type)
    IN  /\ \A type \in {"Physical", "Nature", "Fire", "Water", "Earth", "Wind",
                        "Thunder", "Ice", "Light", "Darkness", "Null"} :
           \A level \in 1..12 :
              GetExperienceValue([type |-> type, stats |-> [level |-> level]])
                 = Value(level, type)
        /\ (pc = "returned" /\ result = "VICTORY") =>
              /\ total_exp_gained = Total(Len(enemies))
              /\ player = GainExperience(last.before, total_exp_gained)
              /\ player.level = last.before.level =>
                    player.experience = last.before.experience + total_exp_gained

\* C11 witness: a victory over a Physical and a Fire enemy gave 10 + 22
\* experience, without a level-up
C11_Witness_MixedRoster ==
    /\ pc = "returned" /\ result = "VICTORY"
    /\ Len(enemies) = 2
    /\ total_exp_gained = 32
    /\ player.experience = 32

\* C12: a successful run away returns FLED in the same step, leaving the
\* player, the enemies, the turn index and the rewards as they were, and nothing
\* happens after the return; a failed one leaves the encounter active and goes on
\* to the status effects, which are followed by the advance of the turn to
\* another combatant
C12_RunAwayEndsOrConsumes ==
    /\ []((pc = "returned" /\ result = "FLED") =>
             /\ total_exp_gained = 0 /\ total_loot = EmptyLoot
             /\ last.op = "player_run_away" /\ last.escaped)
    /\ [][/\ (last'.op = "player_run_away" /\ last'.escaped) =>
                /\ pc' = "returned" /\ result' = "FLED" /\ ~combat_active'
                /\ UNCHANGED <<player, enemies, current_turn_index,
                               total_exp_gained, total_loot>>
          /\ (last'.op = "player_run_away" /\ ~last'.escaped) =>
                /\ pc' = "status" /\ combat_active'
                /\ UNCHANGED <<player, enemies, current_turn_index>>
          /\ pc = "returned" => FALSE
          /\ pc = "status" =>
                /\ pc' = "advance" /\ last'.op = "process_status_effects"
                /\ player' = PlayerProcessStatusEffects(player)
          /\ pc = "advance" =>
                /\ pc' = "check" /\ last'.op = "advance_turn"
                /\ AliveEnemies(enemies) # {} =>
                      current_turn_index' # current_turn_index]_vars

\* C12 witness: the player, not the first in the order, has fled
C12_Witness_Fled ==
    /\ pc = "returned" /\ result = "FLED"
    /\ last.op = "player_run_away" /\ last.escaped
    /\ ActorAt(turn_order, current_turn_index) = 0
    /\ current_turn_index > 0
    /\ AliveEnemies(enemies) # {}

\* C13: whenever the player has the turn, for the player's total agility as it
\* is or set to any of 0..24, the run chance is 50 + (agility + speed - highest
\* agility among the living enemies) x 5 clamped to [10, 90]; a dead enemy does
\* not count; with a total agility of 20 against a highest living agility of 10
\* it is 90; and the chance a run away used is the chance of the state before it
C13_RunChanceClamped ==
    /\ PlayerHasTurn =>
          \A total \in {player.main_stats.agility + player.main_stats.speed}
                          \cup 0..24 :
          \A bump \in {0, 4, 10} :
             LET p  == [player EXCEPT !.main_stats.agility =
                                         total - player.main_stats.speed]
                 es == [i \in 1..Len(enemies) |->
                           [enemies[i] EXCEPT !.stats.agility = @ + bump]]
                 living == {es[i].stats.agility :
                               i \in {k \in 1..Len(es) : es[k].current_hp > 0}}
                 highest == CHOOSE a \in living : \A b \in living : b <= a
                 raw == 50 + (total - highest) * 5
                 chance == RunChance(p, es)
             IN  /\ chance \in 10..90
                 /\ chance = (IF raw < 10 THEN 10 ELSE IF raw > 90 THEN 90 ELSE raw)
                 /\ (total = 20 /\ highest = 10) => chance = 90
    /\ (last.op = "player_run_away") => last.run_chance \in 10..90

\* C13 witness: the player tried to run with the faster enemy dead, and the
\* chance was that against the slower, living one
C13_Witness_DeadFasterEnemy ==
    /\ last.op = "player_run_away" /\ ~last.escaped
    /\ \E i, j \in 1..Len(enemies) :
          /\ enemies[i].current_hp = 0 /\ enemies[j].current_hp > 0
          /\ enemies[i].stats.agility > enemies[j].stats.agility
          /\ last.run_chance =
                50 + (player.main_stats.agility + player.main_stats.speed
                        - enemies[j].stats.agility) * 5

\* C14: a UseItem choice leaves the player and every enemy (hp, mp, status
\* effects, is_defending), the turn order and current_turn_index unchanged, the
\* encounter active, and the player still has the turn and is asked again
C14_UseItemKeepsTurn ==
    /\ [](last.op = "player_use_item" =>
             /\ pc = "turn" /\ combat_active
             /\ ActorAt(turn_order, current_turn_index) = 0
             /\ ENABLED PlayerDefend)
    /\ [][last'.op = "player_use_item" =>
             /\ pc = "turn" /\ ActorAt(turn_order, current_turn_index) = 0
             /\ UNCHANGED <<player, enemies, turn_order, current_turn_index,
                            combat_active, total_exp_gained, total_loot, result>>
             /\ pc' = "turn"]_vars

\* C14 witness: the player, below 3 HP, has chosen UseItem with two enemies
\* alive
C14_Witness_ItemChosen ==
    /\ last.op = "player_use_item"
    /\ pc = "turn"
    /\ AliveEnemies(enemies) = {1, 2}
    /\ player.current_hp < 30

\* C15: right after start_combat nobody is defending; the player is not
\* defending when asked for an action, an enemy that has acted is defending
\* exactly when it ended its turn in a defensive stance; a Defend sets the flag;
\* and the flag of a combatant changes in no step other than its own Defend and
\* the start of its own turn
C15_DefendingUntilOwnTurn ==
    /\ [](/\ last.op = "start_combat" =>
                /\ ~player.is_defending
                /\ \A i \in 1..Len(enemies) : ~enemies[i].is_defending
          /\ (pc = "turn" /\ ActorAt(turn_order, current_turn_index) = 0) =>
                ~player.is_defending
          /\ last.op = "player_defend" => player.is_defending
          /\ (last.op = "enemy_turn" /\ last.action # "none") =>
                (enemies[last.who].is_defending <=> last.ev.did = "defend"))
    /\ [][pc # "start" =>
             /\ player'.is_defending # player.is_defending =>
                   \/ last'.op = "player_defend"
                   \/ last'.op = "get_current_actor" /\ last'.actor = 0
             /\ \A i \in 1..Len(enemies) :
                   enemies'[i].is_defending # enemies[i].is_defending =>
                      last'.op = "enemy_turn" /\ last'.who = i]_vars

\* C15 witness: the player went into a stance and is still in it after an enemy
\* has attacked
C15_Witness_StanceHeld ==
    /\ pc = "status"
    /\ last.op = "enemy_turn" /\ last.action # "none"
    /\ "target_defending" \in DOMAIN last.ev /\ last.ev.target_defending
    /\ player.is_defending
    /\ Len(enemies) = 2

\* C16: take_damage of the player and of an enemy returns
\* max(1, amount - effective defense), the effective defense being defense x 1.5
\* while the combatant is defending and defense otherwise; take_magic_damage
\* likewise with m_defense.  (Compared in twentieths for the player, in halves
\* for an enemy, so that x 1.5 is exact.)
C16_DefendingRaisesDefense ==
    last.op \in {"take_damage", "take_magic_damage"} =>
       IF last.who = 0
       THEN LET defense == IF last.op = "take_damage"
                           THEN player.secondary_stats.defense
                           ELSE player.secondary_stats.m_defense
                doubled == IF player.is_defending THEN 3 * defense ELSE 2 * defense
            IN  2 * last.ret = Max(2 * Tenths(1), 2 * Tenths(last.arg) - doubled)
       ELSE LET defense == IF last.op = "take_damage"
                           THEN enemies[1].stats.defense
                           ELSE enemies[1].stats.m_defense
                doubled == IF enemies[1].is_defending THEN 3 * defense
                           ELSE 2 * defense
            IN  2 * last.ret = Max(2, 2 * last.arg - doubled)

\* C17: calculate_secondary_stats is idempotent and never counts a bonus twice:
\* the derived stats a player holds are those a fresh calculation from the main
\* stats and the equipment gives, one more call and two more calls leave them as
\* they are, a call made by the allocation menu changes nothing, and every
\* derived stat is non-negative.
C17_RecalculationIdempotent ==
    LET sec   == player.secondary_stats
        once  == CalculateSecondaryStatsFrom(sec, player.main_stats, player.equipment)
        twice == CalculateSecondaryStatsFrom(once, player.main_stats, player.equipment)
    IN  /\ sec = CalculateSecondaryStats(player.main_stats, player.equipment)
        /\ once = sec
        /\ twice = sec
        /\ last.op = "calculate_secondary_stats" => sec = last.before
        /\ \A f \in DOMAIN sec : sec[f] >= 0

\* the menu recalculated the stats of an armoured player who had levelled up
C17_Witness_ArmouredRecalculation ==
    /\ last.op = "calculate_secondary_stats"
    /\ player.equipment # <<>>
    /\ player.level >= 2
    /\ player.secondary_stats.defense
          > BASE_DEFENSE + player.main_stats.vitality * VITALITY_DEFENSE_MULTIPLIER

-----------------------------------------------------------------------------
(* src/enemy.py: EnemyDatabase.create_enemy.  A template is a row of the enemy  *)
(* sheet: its name, type, base stats, abilities, loot, and its level_range      *)
(* "lo-hi" (or "lo" alone, kept here as lo = hi).                               *)

\* the highest level_override the encounters ask for
MaxOverride == 10

\* level_multiplier = 1 + (level_diff * 0.1) is a double: its distance from the
\* exact 1 + level_diff / 10, in tenths of 2^-52 (0.1 is not a binary fraction;
\* 1.4 is held as 1.39999999999999991, 1.1 as 1.10000000000000009, ...)
FloatError(level_diff) ==
    <<0, 4, -2, 2, -4, 0, 4, 8, 2, -4, 0, 4, 8, -8, 16, 0>>[level_diff + 1]

\* the largest power of two below n, from k up
RECURSIVE PowerBelow(_, _)
PowerBelow(n, k) == IF 2 * k < n THEN PowerBelow(n, 2 * k) ELSE k

\* int(stat * level_multiplier) in double arithmetic: the integer part of the
\* exact product, except that a product which is exactly an integer N comes out
\* as the double below N, and so as N - 1, when the multiplier is held too low
\* by more than half of the spacing of the doubles below N
ScaleStat(stat, level_diff) ==
    LET n10 == stat * (10 + level_diff)
        N   == n10 \div 10
    IN  IF /\ n10 % 10 = 0
           /\ stat > 0
           /\ FloatError(level_diff) < 0
           /\ (-FloatError(level_diff)) * stat * 2 > 10 * PowerBelow(N, 1)
        THEN N - 1
        ELSE N

\* the levels create_enemy may give the enemy: the override when there is one
\* (0 stands for None), else random.randint over the range; a range randint
\* refuses (lo > hi) falls back to lo
CreateLevels(t, level_override) ==
    IF level_override # 0 THEN {level_override}
    ELSE IF t.level_range[1] <= t.level_range[2]
         THEN t.level_range[1] .. t.level_range[2]
         ELSE {t.level_range[1]}

\* create_enemy once the level is known: the stats of the sheet, scaled when the
\* level is above the lower end of the range; agility and luck as in the sheet
CreateEnemy(t, level) ==
    LET base_level_for_stats == t.level_range[1]
        level_diff == level - base_level_for_stats
        stats == [t.stats EXCEPT !.level = level]
        scaled ==
            IF level > base_level_for_stats
            THEN [stats EXCEPT !.max_hp    = ScaleStat(@, level_diff),
                               !.attack    = ScaleStat(@, level_diff),
                               !.defense   = ScaleStat(@, level_diff),
                               !.m_attack  = ScaleStat(@, level_diff),
                               !.m_defense = ScaleStat(@, level_diff)]
            ELSE stats
    IN  NewEnemy([t EXCEPT !.stats = scaled])

\* rows of the sheet: the three kinds of enemy, each with a fixed level or a
\* range of levels and a few base values
Templates ==
    {[name |-> t.name, type |-> t.type, abilities |-> t.abilities,
      loot |-> t.loot, level_range |-> r,
      stats |-> [t.stats EXCEPT !.max_hp = h, !.attack = a]] :
        t \in {Slime, Imp, Golem},
        r \in {<<1, 1>>, <<1, 5>>, <<5, 10>>},
        h \in {6, 45}, a \in {5, 45}}

(* CreateSpec: the enemy database asked for enemies, with and without a level  *)
(* override.                                                                    *)

CreateInit ==
    /\ pc = "create"
    /\ player = NewPlayer(MainStats, <<>>, 490, 30, <<>>)
    /\ enemies = <<>>
    /\ combat_active = FALSE
    /\ turn_order = <<>>
    /\ current_turn_index = 1
    /\ total_exp_gained = 0
    /\ total_loot = EmptyLoot
    /\ result = "none"
    /\ last = NoCall

CreateEnemyCall ==
    /\ pc = "create"
    /\ \E t \in Templates, level_override \in 0 .. MaxOverride :
          \E level \in CreateLevels(t, level_override) :
             /\ enemies' = <<CreateEnemy(t, level)>>
             /\ last' = [op |-> "create_enemy", template |-> t,
                         level_override |-> level_override, level |-> level]
    /\ UNCHANGED <<player, combat_active, turn_order, current_turn_index,
                   total_exp_gained, total_loot, pc, result>>

CreateNext == CreateEnemyCall

CreateSpec == CreateInit /\ [][CreateNext]_vars

\* C18: an enemy created above the base level of its template has max_hp,
\* attack, defense, m_attack and m_defense multiplied by
\* 1 + 0.10 x (level - base level), whole numbers being kept (the integer part of
\* the product), and agility and luck as in the template; at or below the base
\* level every stat is the template's.
C18_ScaledByTenthPerLevel ==
    last.op = "create_enemy" =>
       LET t    == last.template
           e    == enemies[1]
           diff == last.level - t.level_range[1]
           Scaled == {"max_hp", "attack", "defense", "m_attack", "m_defense"}
       IN  /\ e.stats.level = last.level
           /\ e.stats.agility = t.stats.agility
           /\ e.stats.luck = t.stats.luck
           /\ e.stats.max_mp = t.stats.max_mp
           /\ \A f \in Scaled :
                 e.stats[f] = IF diff > 0
                              THEN (t.stats[f] * (10 + diff)) \div 10
                              ELSE t.stats[f]

\* C19: a player or an enemy saved with to_dict and loaded with from_dict has
\* the current_hp, current_mp, stats and status effects it had before, also when
\* a pool was at 0.
C19_RoundTripKeepsCombatant ==
    last.op = "save_load" =>
       LET x == last.before
           y == Callee
       IN  /\ y.current_hp = x.current_hp
           /\ y.current_mp = x.current_mp
           /\ y.status_effects = x.status_effects
           /\ IF last.who = 0
              THEN /\ y.main_stats = x.main_stats
                   /\ y.secondary_stats = x.secondary_stats
              ELSE /\ y.stats = x.stats
                   /\ y.max_hp = x.max_hp
                   /\ y.max_mp = x.max_mp

C21_DefendingHalvesDamage ==
    /\ (/\ last.op \in {"player_attack", "player_magic_attack"}
        /\ last.outcome = "hit"
        /\ last.target_defending)
       => \* the damage rolled is the damage handed to the enemy
          last.rolled = last.rolled \div 2
    /\ (/\ last.op = "enemy_turn"
        /\ last.action # "none"
        /\ "handed" \in DOMAIN last.ev
        /\ last.ev.target_defending)
       => LET computed == IF last.ev.did = "ability"
                             /\ last.ev.ability = "Fire Blast"
                          THEN (13 * last.ev.rolled) \div 10
                          ELSE last.ev.rolled
          IN  last.ev.handed = computed \div 2

\* C22: status effects tick once per completed round, not once per action: when
\* _process_status_effects has run, every participant of the round has had its
\* turn, that is, no living combatant stands later in the turn order than the one
\* that has just acted (so between two turns of the same combatant there is one
\* tick).
C22_TickOncePerRound ==
    last.op = "process_status_effects" =>
       \A k \in (current_turn_index + 1) .. (Len(turn_order) - 1) :
          /\ ActorAt(turn_order, k) # 0
          /\ ~EnemyIsAlive(enemies[ActorAt(turn_order, k)])

-----------------------------------------------------------------------------
(* EffectsSpec: status effects added to a combatant (Player.add_status_effect   *)
(* with StatusEffectData objects, Enemy.add_status_effect with dicts) and ticked *)
(* by process_status_effects, as _process_status_effects does after each turn.  *)

\* the longest duration an effect is added with
MaxDuration == 2

\* the most effects a combatant carries at a time
MaxEffects == 2

\* StatusEffectData(name, type, duration, potency): potency None, 2.5 or 7.0
PlayerEffects ==
    [type : {"poison", "burn", "regen_hp", "stun"}, duration : 1..MaxDuration,
     potency : {<<>>, <<25>>, <<70>>}]

\* the dicts an enemy is given: 'damage' for poison and burn, 'heal' for regen,
\* absent or 2
EnemyEffects ==
    [type : {"poison", "burn", "regen"}, duration : 1..MaxDuration,
     amount : {<<>>, <<2>>}]

EffectsInit ==
    /\ \/ /\ pc = "effects_player"
          /\ player \in {NewPlayer(MainStats, <<>>, hp, 30, <<>>) :
                            hp \in {0, 30, 460, 490}}
          /\ enemies = <<>>
       \/ /\ pc = "effects_enemy"
          /\ player = NewPlayer(MainStats, <<>>, 490, 30, <<>>)
          /\ enemies \in {<<[NewEnemy(Imp) EXCEPT !.current_hp = hp]>> :
                             hp \in {2, 8, 11}}
    /\ combat_active = FALSE
    /\ turn_order = <<>>
    /\ current_turn_index = 1
    /\ total_exp_gained = 0
    /\ total_loot = EmptyLoot
    /\ result = "none"
    /\ last = NoCall

EffPlayerAdd ==
    /\ pc = "effects_player"
    /\ Len(player.status_effects) < MaxEffects
    /\ \E effect \in PlayerEffects :
          /\ player' = PlayerAddStatusEffect(player, effect, TRUE)
          /\ last' = [op |-> "add_status_effect", who |-> 0, arg |-> effect]
    /\ UNCHANGED enemies
    /\ OpsFrame

EffPlayerTick ==
    /\ pc = "effects_player"
    /\ player' = PlayerProcessStatusEffects(player)
    /\ last' = [op |-> "process_status_effects", who |-> 0, before |-> player]
    /\ UNCHANGED enemies
    /\ OpsFrame

EffEnemyAdd ==
    /\ pc = "effects_enemy"
    /\ Len(enemies[1].status_effects) < MaxEffects
    /\ \E effect \in EnemyEffects :
          /\ enemies' = <<EnemyAddStatusEffect(enemies[1], effect)>>
          /\ last' = [op |-> "add_status_effect", who |-> 1, arg |-> effect]
    /\ UNCHANGED player
    /\ OpsFrame

\* the enemy's part of _process_status_effects: only a living enemy is ticked
EffEnemyTick ==
    /\ pc = "effects_enemy"
    /\ EnemyIsAlive(enemies[1])
    /\ enemies' = <<EnemyProcessStatusEffects(enemies[1])>>
    /\ last' = [op |-> "process_status_effects", who |-> 1, before |-> enemies[1]]
    /\ UNCHANGED player
    /\ OpsFrame

EffectsNext ==
    \/ EffPlayerAdd
    \/ EffPlayerTick
    \/ EffEnemyAdd
    \/ EffEnemyTick

EffectsSpec == EffectsInit /\ [][EffectsNext]_vars

\* C23: every effect a combatant carries has duration > 0, and a call of
\* process_status_effects lowers the duration of every effect by 1 and removes
\* exactly those that reach 0, the others staying in their order: an effect
\* added with duration d is ticked on d calls and leaves on the d-th.
C23_RemovedWhenDurationZero ==
    /\ \A i \in 1..Len(player.status_effects) :
          player.status_effects[i].duration > 0
    /\ \A k \in 1..Len(enemies) : \A i \in 1..Len(enemies[k].status_effects) :
          enemies[k].status_effects[i].duration > 0
    /\ last.op = "process_status_effects" =>
          LET before  == last.before.status_effects
              lowered == [i \in 1..Len(before) |->
                             [before[i] EXCEPT !.duration = @ - 1]]
              Stays(effect) == effect.duration # 0
          IN  Callee.status_effects = SelectSeq(lowered, Stays)

\* two effects of duration 1 left the player in the same tick
C23_Witness_TwoExpireTogether ==
    /\ last.op = "process_status_effects"
    /\ last.who = 0
    /\ Len(last.before.status_effects) = 2
    /\ \A i \in 1..2 : last.before.status_effects[i].duration = 1
    /\ player.status_effects = <<>>

C25_ChosenActionEligible ==
    LET Eligible(hp, mp, max_hp, abilities, action) ==
            CASE action = "attack"       -> TRUE
              [] action = "magic_attack" -> mp >= 10
              [] action = "defend"       -> 10 * hp < 3 * max_hp
              [] action = "ability"      -> abilities # <<>> /\ mp >= 15
              [] action = "heal"         -> 10 * hp < 2 * max_hp /\ mp >= 20
              [] OTHER                   -> FALSE
    IN  /\ \A i \in AliveEnemies(enemies) :
              LET e == enemies[i]
              IN  ChooseAction(e)
                     = {a \in {"attack", "magic_attack", "defend", "ability", "heal"} :
                           Eligible(e.current_hp, e.current_mp, e.max_hp,
                                    e.abilities, a)}
        /\ (last.op = "enemy_turn" /\ last.action # "none") =>
              Eligible(last.e_hp, last.e_mp, enemies[last.who].max_hp,
                       enemies[last.who].abilities, last.action)

\* an Imp below 20% of its HP with 20 MP or more chose to heal
C25_Witness_HealChosen ==
    /\ last.op = "enemy_turn"
    /\ last.action = "heal"
    /\ last.ev.did = "heal"
    /\ 10 * last.e_hp < 2 * enemies[last.who].max_hp

\* C26: an MP-costing action attempted without the MP deducts nothing and turns
\* into the cheaper action within the same turn: an enemy's magic attack below
\* 10 MP is a physical attack, an enemy's heal below 20 MP is a defend, and the
\* player's magic attack below 10 MP is a physical attack (it hits, is dodged or
\* fails as _player_attack does; it is not just refused).
C26_FallbackOnMissingMp ==
    /\ \A i \in AliveEnemies(enemies) :
          LET e == enemies[i]
          IN  /\ e.current_mp < 10 =>
                    \A o \in EnemyMagicAttack(player, e, "magic_attack") :
                       o.ev.did = "attack" /\ o.e.current_mp = e.current_mp
              /\ e.current_mp < 20 =>
                    \A o \in EnemyHealAction(player, e, "heal") :
                       /\ o.ev.did = "defend"
                       /\ o.e.current_mp = e.current_mp
                       /\ o.e.is_defending
    /\ last.op = "player_magic_attack" => last.outcome # "no_mp"

\* C27: rewards are granted on VICTORY only and once: no step of an encounter
\* other than its victorious end changes the player's experience, level,
\* threshold or free points; the victorious end is one gain_experience of the
\* experience total; and when the encounter has returned DEFEAT or FLED,
\* get_experience_gained() is 0 and get_loot() is empty.
C27_RewardsOnlyOnVictory ==
    /\ [](result \in {"DEFEAT", "FLED"} =>
             /\ total_exp_gained = 0
             /\ total_loot = EmptyLoot)
    /\ [][IF pc' = "returned" /\ result' = "VICTORY"
          THEN player' = GainExperience(player, total_exp_gained')
          ELSE /\ player'.experience = player.experience
               /\ player'.level = player.level
               /\ player'.experience_to_next = player.experience_to_next
               /\ player'.free_points = player.free_points
               /\ player'.main_stats = player.main_stats]_vars

\* the player, who came with 95 experience points, fled from two enemies after
\* killing one of them
C27_Witness_FledAfterKill ==
    /\ result = "FLED"
    /\ Len(enemies) = 2
    /\ \E i \in 1..2 : ~EnemyIsAlive(enemies[i])
    /\ player.experience = 95
    /\ total_exp_gained = 0

\* C28: an enemy whose current_hp is 0 is left as it is by every further step of
\* the encounter (current_hp stays 0, no MP spent, no stance taken, its status
\* effects not ticked), and no such step is an action of that enemy.
C28_DeadEnemyStaysDead ==
    [][\A i \in 1..Len(enemies) :
          enemies[i].current_hp = 0 =>
             /\ enemies'[i] = enemies[i]
             /\ ~(/\ last'.op = "enemy_turn"
                  /\ last'.who = i
                  /\ last'.action # "none")]_vars

\* a status tick went by the dead first enemy, whose regen effect is still on it,
\* while the second enemy lives
C28_Witness_DeadSkippedByTick ==
    /\ last.op = "process_status_effects"
    /\ Len(enemies) = 2
    /\ enemies[1].current_hp = 0
    /\ enemies[1].status_effects # <<>>
    /\ EnemyIsAlive(enemies[2])
    /\ PlayerIsAlive(player)

\* C29: after an enemy's Poison Strike that was paid for (15 MP) and not dodged,
\* the player has taken the damage and carries a poison status effect of 3 turns.
C29_PoisonStrikePoisons ==
    (/\ last.op = "enemy_turn"
     /\ last.action # "none"
     /\ last.ev.did = "ability"
     /\ last.ev.ability = "Poison Strike"
     /\ ~last.ev.raised
     /\ ~last.ev.dodged)
    => /\ player.current_hp = Max(0, last.hp - last.ev.actual)
       /\ enemies[last.who].current_mp = last.e_mp - 15
       /\ \E k \in 1..Len(player.status_effects) :
             /\ player.status_effects[k].type = "poison"
             /\ player.status_effects[k].duration = 3

-----------------------------------------------------------------------------
(* FairSpec: the encounter under fair scheduling.  The while loop of              *)
(* execute_combat_encounter goes on as long as a step is possible; the player     *)
(* asked again and again by _process_player_turn ends up with a choice that takes *)
(* the turn; the random draws of the enemies do not keep away for ever from an    *)
(* action that hurts the player (no endless dodging, defending or healing).       *)

\* the rosters of the fair encounters: no enemy at all, one enemy without MP, or
\* one with MP enough for every ability and a heal
FairRosters == {<<>>, <<NewEnemy(Slime)>>, <<NewEnemy(Imp)>>}

FairInit ==
    /\ pc = "start"
    /\ player \in SpecPlayers
    /\ enemies \in FairRosters
    /\ combat_active = FALSE
    /\ turn_order = <<>>
    /\ current_turn_index = 0
    /\ total_exp_gained = 0
    /\ total_loot = EmptyLoot
    /\ result = "none"
    /\ last = NoCall

\* a choice of the player that takes the turn ("1", "2", "3" or "5")
PlayerActs ==
    \/ PlayerAttack
    \/ PlayerMagicAttack
    \/ PlayerDefend
    \/ PlayerRunAwayFails
    \/ PlayerRunAwaySucceeds

\* an enemy turn that costs the player hit points: an attack, magic attack or
\* offensive ability that is not dodged
EnemyHits == EnemyTurn /\ player'.current_hp < player.current_hp

FairSpec ==
    /\ FairInit
    /\ [][Next]_vars
    /\ WF_vars(Next)
    /\ WF_vars(PlayerActs)
    /\ SF_vars(EnemyHits)

\* C30: under this fairness every encounter eventually returns VICTORY, DEFEAT or
\* FLED.
C30_EncounterResolves ==
    <>(pc = "returned" /\ result \in {"VICTORY", "DEFEAT", "FLED"})

=============================================================================
